---------------------------- MODULE Spec2Model ----------------------------
(***************************************************************************)
(* A model of the floor-plan tiling editor (src/App.tsx, the geometry      *)
(* kernel in src/unnamed/part_001 and the types in src/unnamed/part_000).  *)
(*                                                                         *)
(* Numbers.  The program computes in IEEE doubles.  The model computes in  *)
(* exact rationals <<n, d>> (d > 0, lowest terms): document coordinates    *)
(* are integers, and the only non-integers the kernel produces are the     *)
(* edge/edge intersection points of the clipper and the areas and ratios   *)
(* derived from them.  The program's epsilons (1e-9, 1e-6) are kept as     *)
(* the rationals 1/10^9 and 1/10^6.  A sum of square roots (a perimeter)   *)
(* is kept symbolically as the sequence of its squared terms.              *)
(***************************************************************************)
EXTENDS Integers, Sequences, FiniteSets, TLC

(***************************************************************************)
(* Exact rational arithmetic (the model's stand-in for `number`).          *)
(***************************************************************************)
RECURSIVE GCD(_, _)
GCD(a, b) == IF b = 0 THEN a ELSE GCD(b, a % b)

IAbs(n) == IF n < 0 THEN -n ELSE n

Norm(n, d) ==
    LET s == IF d < 0 THEN -1 ELSE 1
        g == GCD(IAbs(n), IAbs(d))
    IN  IF d = 1 THEN <<n, 1>>
        ELSE IF n = 0 THEN <<0, 1>>
        ELSE <<(s * n) \div g, (s * d) \div g>>

R(n) == <<n, 1>>
RAdd(a, b) == Norm(a[1] * b[2] + b[1] * a[2], a[2] * b[2])
RSub(a, b) == Norm(a[1] * b[2] - b[1] * a[2], a[2] * b[2])
RMul(a, b) == Norm(a[1] * b[1], a[2] * b[2])
RDiv(a, b) == Norm(a[1] * b[2], a[2] * b[1])
RLt(a, b) == a[1] * b[2] < b[1] * a[2]
RLe(a, b) == a[1] * b[2] <= b[1] * a[2]
RAbs(a) == <<IAbs(a[1]), a[2]>>
RZero == <<0, 1>>

\* 10^6 and 10^9: the denominators of the program's two epsilons.
AreaEpsDen == 1000000
EPSILON_DEN == 1000000000

\* a > 1/den and a < 1/den for a >= 0, without forming a[1] * den.
RGtEps(a, den) == a[1] > a[2] \div den
RLtEps(a, den) == ~RGtEps(a, den) /\ ~(a[1] * den = a[2])

(***************************************************************************)
(* Geometry kernel (src/unnamed/part_001).  A point is a record with       *)
(* rational fields x and y; the kernel never reads a point's id.           *)
(***************************************************************************)
\* A list with its elements worked out.
List(s) == s \o <<>>

Pt(x, y) == [x |-> x, y |-> y]
\* A document point or corner (integer coordinates) as a kernel point.
IPt(x, y) == Pt(R(x), R(y))
ToPoly(points) == List([i \in 1..Len(points) |-> IPt(points[i].x, points[i].y)])

Reverse(s) == List([i \in 1..Len(s) |-> s[Len(s) + 1 - i]])

RECURSIVE RSumTo(_, _, _)
\* The sum f[1] + ... + f[n] of rationals, left to right.
RSumTo(f, n, acc) == IF n = 0 THEN acc ELSE RSumTo(f, n - 1, RAdd(acc, f[n]))
RSum(f) == RSumTo(f, Len(f), RZero)

\* polygon[(i + 1) % n] for the 1-based index i.
NextIdx(i, n) == (i % n) + 1
\* the j of "for (i = 0, j = n - 1; i < n; j = i++)" for the 1-based index i.
PrevIdx(i, n) == IF i = 1 THEN n ELSE i - 1


\* The shoelace sum halved, with its sign.
SignedArea(polygon) ==
    IF Len(polygon) < 3 THEN RZero
    ELSE LET n == Len(polygon)
             term(i) == RSub(RMul(polygon[i].x, polygon[PrevIdx(i, n)].y),
                             RMul(polygon[PrevIdx(i, n)].x, polygon[i].y))
         IN  RDiv(RSum([i \in 1..n |-> term(i)]), R(2))

polygonArea(polygon) ==
    IF Len(polygon) < 3 THEN RZero
    ELSE LET n == Len(polygon)
             term(i) == RSub(RMul(polygon[i].x, polygon[PrevIdx(i, n)].y),
                             RMul(polygon[PrevIdx(i, n)].x, polygon[i].y))
         IN  RAbs(RDiv(RSum([i \in 1..n |-> term(i)]), R(2)))

\* The squared length of segment p1-p2; distance() is its square root.
distanceSq(p1, p2) ==
    RAdd(RMul(RSub(p2.x, p1.x), RSub(p2.x, p1.x)),
         RMul(RSub(p2.y, p1.y), RSub(p2.y, p1.y)))

\* The perimeter, a sum of square roots, as the sequence of squared edges.
polygonPerimeter(polygon) ==
    List([i \in 1..Len(polygon) |->
             distanceSq(polygon[i], polygon[NextIdx(i, Len(polygon))])])

RMin(a, b) == IF RLt(b, a) THEN b ELSE a
RMax(a, b) == IF RLt(a, b) THEN b ELSE a

\* (p2 - p1) x (p - p1), the clipper's crossProduct(p2, p1, p).
\* The cross product with its operands exchanged.
FlippedCrossProduct(p2, p1, p) ==
    RSub(RMul(RSub(p2.y, p1.y), RSub(p.x, p1.x)),
         RMul(RSub(p2.x, p1.x), RSub(p.y, p1.y)))

crossProduct(p2, p1, p) ==
    RSub(RMul(RSub(p2.x, p1.x), RSub(p.y, p1.y)),
         RMul(RSub(p2.y, p1.y), RSub(p.x, p1.x)))

\* |d(p1,point) + d(point,p2) - d(p1,p2)| < EPSILON: point lies on the
\* closed segment p1-p2 (exactly: collinear and between the end points).
OnEdge(point, p1, p2) ==
    /\ crossProduct(p2, p1, point) = RZero
    /\ RLe(RMin(p1.x, p2.x), point.x) /\ RLe(point.x, RMax(p1.x, p2.x))
    /\ RLe(RMin(p1.y, p2.y), point.y) /\ RLe(point.y, RMax(p1.y, p2.y))

\* One edge of the ray cast: does the ray from point towards +x cross pj-pi.
RayCrosses(point, pi, pj) ==
    /\ RLt(point.y, pi.y) # RLt(point.y, pj.y)
    /\ RLt(point.x,
           RAdd(RDiv(RMul(RSub(pj.x, pi.x), RSub(point.y, pi.y)),
                     RSub(pj.y, pi.y)), pi.x))

pointInPolygon(point, polygon) ==
    LET n == Len(polygon)
    IN  IF n < 3 THEN FALSE
        ELSE IF \E i \in 1..n : OnEdge(point, polygon[i], polygon[NextIdx(i, n)])
        THEN TRUE
        ELSE Cardinality({i \in 1..n :
                 RayCrosses(point, polygon[i], polygon[PrevIdx(i, n)])}) % 2 = 1

onSegment(p, q, r) ==
    /\ RLe(q.x, RMax(p.x, r.x)) /\ RLe(RMin(p.x, r.x), q.x)
    /\ RLe(q.y, RMax(p.y, r.y)) /\ RLe(RMin(p.y, r.y), q.y)

orientation(p, q, r) ==
    LET val == RSub(RMul(RSub(q.y, p.y), RSub(r.x, q.x)),
                    RMul(RSub(q.x, p.x), RSub(r.y, q.y)))
    IN  IF RLtEps(RAbs(val), EPSILON_DEN) THEN 0
        ELSE IF RLt(RZero, val) THEN 1 ELSE 2

segmentsIntersect(p1, q1, p2, q2) ==
    LET o1 == orientation(p1, q1, p2)
        o2 == orientation(p1, q1, q2)
        o3 == orientation(p2, q2, p1)
        o4 == orientation(p2, q2, q1)
    IN  \/ (o1 # o2 /\ o3 # o4)
        \/ (o1 = 0 /\ onSegment(p1, p2, q1))
        \/ (o2 = 0 /\ onSegment(p1, q2, q1))
        \/ (o3 = 0 /\ onSegment(p2, p1, q2))
        \/ (o4 = 0 /\ onSegment(p2, q1, q2))

\* The 4-corner polygon of a rectangle [x, y, width, height].
RectPolygon(rect) ==
    << IPt(rect.x, rect.y),
       IPt(rect.x + rect.width, rect.y),
       IPt(rect.x + rect.width, rect.y + rect.height),
       IPt(rect.x, rect.y + rect.height) >>

polygonIntersectsRectangle(polygon, rect) ==
    LET rectPoints == RectPolygon(rect)
        n == Len(polygon)
        x0 == R(rect.x)
        x1 == R(rect.x + rect.width)
        y0 == R(rect.y)
        y1 == R(rect.y + rect.height)
    IN  \/ \E i \in 1..n :
              /\ RLe(x0, polygon[i].x) /\ RLe(polygon[i].x, x1)
              /\ RLe(y0, polygon[i].y) /\ RLe(polygon[i].y, y1)
        \/ \E j \in 1..4 : pointInPolygon(rectPoints[j], polygon)
        \/ \E i \in 1..n : \E j \in 1..4 :
              segmentsIntersect(polygon[i], polygon[NextIdx(i, n)],
                                rectPoints[j], rectPoints[NextIdx(j, 4)])

NoPoint == [none |-> TRUE]

\* The intersection of the infinite lines p1-p2 and p3-p4, NoPoint when the
\* determinant is below 1e-9 in magnitude.
getLineIntersection(p1, p2, p3, p4) ==
    LET d == RSub(RMul(RSub(p1.x, p2.x), RSub(p3.y, p4.y)),
                  RMul(RSub(p1.y, p2.y), RSub(p3.x, p4.x)))
    IN  IF RLtEps(RAbs(d), EPSILON_DEN) THEN NoPoint
        ELSE LET t == RDiv(RSub(RMul(RSub(p1.x, p3.x), RSub(p3.y, p4.y)),
                                RMul(RSub(p1.y, p3.y), RSub(p3.x, p4.x))), d)
             IN  Pt(RAdd(p1.x, RMul(t, RSub(p2.x, p1.x))),
                    RAdd(p1.y, RMul(t, RSub(p2.y, p1.y))))


rectanglesIntersect(rect1, rect2) ==
    /\ rect1.x < rect2.x + rect2.width
    /\ rect1.x + rect1.width > rect2.x
    /\ rect1.y < rect2.y + rect2.height
    /\ rect1.y + rect1.height > rect2.y

\* The inner loop of the clipper: inputList clipped by the half plane on
\* the left of clipEdgeP1 -> clipEdgeP2, vertices j..Len(inputList).
RECURSIVE ClipByEdge(_, _, _, _, _)
ClipByEdge(inputList, c1, c2, j, out) ==
    IF j > Len(inputList) THEN out
    ELSE LET E == inputList[j]
             S == inputList[PrevIdx(j, Len(inputList))]
             sInside == RLe(RZero, crossProduct(c2, c1, S))
             eInside == RLe(RZero, crossProduct(c2, c1, E))
             x == getLineIntersection(S, E, c1, c2)
             add == IF sInside /\ eInside THEN <<E>>
                    ELSE IF sInside /\ ~eInside
                         THEN (IF x = NoPoint THEN <<>> ELSE <<x>>)
                    ELSE IF ~sInside /\ eInside
                         THEN (IF x = NoPoint THEN <<E>> ELSE <<x, E>>)
                    ELSE <<>>
         IN  ClipByEdge(inputList, c1, c2, j + 1, out \o add)

RECURSIVE ClipFrom(_, _, _)
ClipFrom(outputList, clipPolygon, i) ==
    IF i > Len(clipPolygon) THEN outputList
    ELSE IF Len(outputList) = 0 THEN <<>>
    ELSE ClipFrom(ClipByEdge(outputList, clipPolygon[i],
                             clipPolygon[NextIdx(i, Len(clipPolygon))], 1, <<>>),
                  clipPolygon, i + 1)

clipPolygonByPolygon(subjectPolygon, clipPolygon) ==
    ClipFrom(subjectPolygon, clipPolygon, 1)


(***************************************************************************)
(* Types and constants (src/unnamed/part_000, src/App.tsx).                *)
(*                                                                         *)
(* An area point is [id, x, y]; a wall is [id, p1Id, p2Id]; an area is     *)
(* [id, num, points, walls, isClosed, calculationResult, isVisible], num   *)
(* being the N of its name "Area N"; a tile is [id, x, y, width, height,   *)
(* color, number].  A tile's number, the string "<prefix>-<ordinal>", is   *)
(* kept as the sequence of its '-'-separated integer fields: <<p, o>>,     *)
(* the placeholder '0' as <<0>>, and null as <<>>.                         *)
(***************************************************************************)
TILE_COLORS ==
    << "#ef4444", "#f97316", "#eab308", "#84cc16", "#22c55e",
       "#06b6d4", "#3b82f6", "#8b5cf6", "#ec4899", "#78716c" >>

\* TILE_COLORS.indexOf(color): 0-based, -1 when absent.
ColorIndexOf(color) ==
    IF \E i \in 1..Len(TILE_COLORS) : TILE_COLORS[i] = color
    THEN (CHOOSE i \in 1..Len(TILE_COLORS) :
             /\ TILE_COLORS[i] = color
             /\ \A j \in 1..(i - 1) : TILE_COLORS[j] # color) - 1
    ELSE -1

NullNumber == <<>>
PlaceholderNumber == <<0>>
\* `${colorPrefix}-${index + 1}`
FormatNumber(colorPrefix, ordinal) == <<colorPrefix, ordinal>>

NullResult == [null |-> TRUE]
Null == [null |-> TRUE]

\* The indices i with keep[i], in increasing order: what Array.filter keeps.
RECURSIVE IndicesFrom(_, _)
IndicesFrom(keep, i) ==
    IF i > Len(keep) THEN <<>>
    ELSE (IF keep[i] THEN <<i>> ELSE <<>>) \o IndicesFrom(keep, i + 1)
Indices(keep) == IndicesFrom(keep, 1)

SelectIdx(s, idxs) == List([k \in 1..Len(idxs) |-> s[idxs[k]]])

RECURSIVE Flatten(_)
Flatten(ss) == IF Len(ss) = 0 THEN <<>> ELSE Head(ss) \o Flatten(Tail(ss))

(***************************************************************************)
(* renumberTilesByColor (src/App.tsx:70-103).                              *)
(***************************************************************************)
\* The comparator (a, b) => a.y - b.y || a.x - b.x is negative.
TileBefore(a, b) == a.y < b.y \/ (a.y = b.y /\ a.x < b.x)

\* Array.prototype.sort with a comparator that is negative exactly when
\* Before: stable, so elements that compare equal keep their list order.
\* before[i][j] says that s[i] sorts before s[j].
StableSort(s, before) ==
    LET n == Len(s)
        rank(i) == 1 + Cardinality({j \in 1..n :
                        \/ before[j][i]
                        \/ (~before[i][j] /\ j < i)})
    IN  List([k \in 1..n |-> s[CHOOSE i \in 1..n : rank(i) = k]])

SortTiles(group) ==
    StableSort(group, List([i \in 1..Len(group) |-> List([j \in 1..Len(group) |->
                               TileBefore(group[i], group[j])])]))

\* The colours of the numbered tiles, in list order.
NumberedColors(tiles) ==
    SelectIdx([i \in 1..Len(tiles) |-> tiles[i].color],
              Indices([q \in 1..Len(tiles) |-> tiles[q].number # NullNumber]))

\* The distinct values of s by first appearance: the keys of a Map in
\* insertion order.
FirstsOf(s) ==
    SelectIdx(s, Indices([k \in 1..Len(s) |-> \A m \in 1..(k - 1) : s[m] # s[k]]))

\* The keys of tilesByColor in insertion order: the colours of the numbered
\* tiles by first appearance.
ColorKeys(tiles) == FirstsOf(NumberedColors(tiles))

\* tilesByColor.get(color): the numbered tiles of one colour, in list order.
ColorGroup(tiles, color) ==
    SelectIdx(tiles, Indices([q \in 1..Len(tiles) |->
                  tiles[q].number # NullNumber /\ tiles[q].color = color]))

\* sortedTiles.map((tile, index) => ({...tile, number: prefix-(index + 1)}))
NumberGroup(sortedTiles, colorPrefix) ==
    List([k \in 1..Len(sortedTiles) |->
             [sortedTiles[k] EXCEPT !.number = FormatNumber(colorPrefix, k)]])

RenumberedGroup(tiles, color) ==
    NumberGroup(SortTiles(ColorGroup(tiles, color)), ColorIndexOf(color))

AllRenumberedTiles(tiles, keys) ==
    Flatten(List([k \in 1..Len(keys) |-> RenumberedGroup(tiles, keys[k])]))

\* tiles.map(t => renumberedMap.get(t.id) || t), renumberedMap being
\* new Map(allRenumberedTiles.map(t => [t.id, t])): the last entry of an id
\* is the one the map keeps.
MapBack(tiles, allRenumberedTiles) ==
    LET n == Len(allRenumberedTiles)
        has(id) == \E k \in 1..n : allRenumberedTiles[k].id = id
        get(id) == allRenumberedTiles[
                      CHOOSE k \in 1..n :
                          /\ allRenumberedTiles[k].id = id
                          /\ \A m \in (k + 1)..n : allRenumberedTiles[m].id # id]
    IN  List([i \in 1..Len(tiles) |->
                 IF has(tiles[i].id) THEN get(tiles[i].id) ELSE tiles[i]])

renumberTilesByColor(tiles) ==
    MapBack(tiles, AllRenumberedTiles(tiles, ColorKeys(tiles)))

(***************************************************************************)
(* calculateStatsForArea (src/App.tsx:504-573).                            *)
(***************************************************************************)
isPolygonClockwise(polygon) ==
    LET n == Len(polygon)
        term(i) == RMul(RSub(polygon[NextIdx(i, n)].x, polygon[i].x),
                        RAdd(polygon[NextIdx(i, n)].y, polygon[i].y))
    IN  RLt(RZero, RSum([i \in 1..n |-> term(i)]))

\* The area's polygon as the clipper gets it: reversed when clockwise.
NormalizedPolygon(points) ==
    LET areaPolygon == ToPoly(points)
    IN  IF isPolygonClockwise(areaPolygon) THEN Reverse(areaPolygon) ELSE areaPolygon

\* The area of the whole tile, whatever the polygon.
WholeTileArea(tile, areaPolygon) == R(tile.width * tile.height)

\* polygonArea(clipPolygonByPolygon(tilePolygon, areaPolygon))
TileIntersectionArea(tile, areaPolygon) ==
    polygonArea(clipPolygonByPolygon(RectPolygon(tile), areaPolygon))

\* The intersection area the loop over intersectingTiles works with: the
\* tiles that polygonIntersectsRectangle filters out take no part (0).
UsedAreaOf(areaPolygon, tile) ==
    IF polygonIntersectsRectangle(areaPolygon, tile)
    THEN TileIntersectionArea(tile, areaPolygon)
    ELSE RZero

\* The accumulation of the loop and the result object; intersectionArea[i]
\* belongs to allTiles[i].
StatsOver(allTiles, intersectionArea, singleTileArea, pArea, perimeter) ==
    LET n == Len(allTiles)
        counted(i) == RGtEps(intersectionArea[i], AreaEpsDen)
        colors == {allTiles[i].color : i \in {i \in 1..n : counted(i)}}
        areaOfColor(c) ==
            RSum(SelectIdx(intersectionArea,
                           Indices([i \in 1..n |->
                                       counted(i) /\ allTiles[i].color = c])))
        totalUsedTileArea ==
            RSum(SelectIdx(intersectionArea, Indices([i \in 1..n |-> counted(i)])))
        finalTileCount == RDiv(totalUsedTileArea, R(singleTileArea))
    IN  [tileCount |-> finalTileCount,
         colorCount |-> Cardinality(colors),
         tileCountsByColor |->
             [c \in colors |-> RDiv(areaOfColor(c), R(singleTileArea))],
         total |-> finalTileCount,
         polygonArea |-> pArea, perimeter |-> perimeter]

StatsResult(areaPolygon, allTiles, tileDims) ==
    IF tileDims.width * tileDims.height = 0
    THEN [tileCount |-> RZero, colorCount |-> 0,
          tileCountsByColor |-> [c \in {} |-> RZero], total |-> RZero,
          polygonArea |-> polygonArea(areaPolygon),
          perimeter |-> polygonPerimeter(areaPolygon)]
    ELSE StatsOver(allTiles,
                   List([i \in 1..Len(allTiles) |->
                            UsedAreaOf(areaPolygon, allTiles[i])]),
                   tileDims.width * tileDims.height,
                   polygonArea(areaPolygon), polygonPerimeter(areaPolygon))

calculateStatsForArea(area, allTiles, tileDims) ==
    IF ~area.isClosed \/ Len(area.points) < 3
    THEN [area EXCEPT !.calculationResult = NullResult]
    ELSE [area EXCEPT !.calculationResult =
              StatsResult(NormalizedPolygon(area.points), allTiles, tileDims)]


(***************************************************************************)
(* The cut decomposition of handleCut (src/App.tsx:1321-1447).             *)
(*                                                                         *)
(* A piece is [id, originalTile, isOffcut, x, y, polygons,                 *)
(* wastePercentage] and, on an offcut, cutSegments.  The id strings        *)
(* `${tile.id}-offcut` and `${tile.id}-in-${i}` are kept as the records    *)
(* [tile, kind, i].                                                        *)
(***************************************************************************)
arePointsCollinear(p1, p2, p3) ==
    LET area == RAdd(RAdd(RMul(p1.x, RSub(p2.y, p3.y)),
                          RMul(p2.x, RSub(p3.y, p1.y))),
                     RMul(p3.x, RSub(p1.y, p2.y)))
    IN  RLtEps(RAbs(area), AreaEpsDen)

\* lo - epsilon <= v /\ v <= hi + epsilon, epsilon = 1e-6
WithinEps(lo, v, hi) ==
    /\ ~RGtEps(RSub(lo, v), AreaEpsDen)
    /\ ~RGtEps(RSub(v, hi), AreaEpsDen)

isPointOnSegment(p, a, b) ==
    /\ arePointsCollinear(a, b, p)
    /\ WithinEps(RMin(a.x, b.x), p.x, RMax(a.x, b.x))
    /\ WithinEps(RMin(a.y, b.y), p.y, RMax(a.y, b.y))

\* Both ends lie on the border of the tile, on one side or on two.
EndsOnTileBorder(p1, p2, tile) ==
    LET c == RectPolygon(tile)
    IN  /\ \E k \in 1..4 : isPointOnSegment(p1, c[k], c[NextIdx(k, 4)])
        /\ \E k \in 1..4 : isPointOnSegment(p2, c[k], c[NextIdx(k, 4)])

isSegmentOnTileBoundary(p1, p2, tile) ==
    LET c == RectPolygon(tile)
    IN  \E k \in 1..4 :
            /\ isPointOnSegment(p1, c[k], c[NextIdx(k, 4)])
            /\ isPointOnSegment(p2, c[k], c[NextIdx(k, 4)])

\* The polygon left in plan coordinates.
ShiftPolygonNot(poly, tile) == poly

\* poly.map(p => ({...p, x: p.x - tile.x, y: p.y - tile.y}))
ShiftPolygon(poly, tile) ==
    List([k \in 1..Len(poly) |->
             Pt(RSub(poly[k].x, R(tile.x)), RSub(poly[k].y, R(tile.y)))])

\* The rectangle of the tile in plan coordinates.
LocalRectAtTile(tile) == RectPolygon(tile)

\* [0,0], [width,0], [width,height], [0,height]
LocalRect(tile) ==
    << IPt(0, 0), IPt(tile.width, 0), IPt(tile.width, tile.height),
       IPt(0, tile.height) >>

\* areas.filter(a => a.isClosed && a.isVisible)
ClosedVisibleAreas(areas) ==
    SelectIdx(areas, Indices([q \in 1..Len(areas) |->
                                 areas[q].isClosed /\ areas[q].isVisible]))

\* correctedAreaPolygons: the polygons of closedAreas, clockwise ones reversed.
NormalizedPolygons(closedAreas) ==
    List([k \in 1..Len(closedAreas) |-> NormalizedPolygon(closedAreas[k].points)])

CorrectedAreaPolygons(areas) == NormalizedPolygons(ClosedVisibleAreas(areas))

\* The candidates with polygonArea(intersectionPoly) > 1e-6.
RetainedCandidates(candidates) ==
    SelectIdx(candidates,
              Indices([k \in 1..Len(candidates) |->
                          RGtEps(polygonArea(candidates[k]), AreaEpsDen)]))

\* The retained clip candidates of a tile, one per area at most.
InPiecePolygons(tile, areaPolygons) ==
    RetainedCandidates(
        List([k \in 1..Len(areaPolygons) |->
                 clipPolygonByPolygon(RectPolygon(tile), areaPolygons[k])]))

\* The edges poly[i] -> poly[i + 1] for the indices idxs.
EdgesAt(poly, idxs) ==
    List([m \in 1..Len(idxs) |->
             <<poly[idxs[m]], poly[NextIdx(idxs[m], Len(poly))]>>])

\* The edges of one in-piece that do not lie on one side of the tile.
CutEdgesOf(tile, poly) ==
    EdgesAt(poly, Indices([q \in 1..Len(poly) |->
                ~isSegmentOnTileBoundary(poly[q], poly[NextIdx(q, Len(poly))], tile)]))

CutSegmentsOf(tile, inPiecePolygons) ==
    Flatten(List([k \in 1..Len(inPiecePolygons) |->
                     CutEdgesOf(tile, inPiecePolygons[k])]))

TotalInPieceArea(inPiecePolygons) ==
    RSum([k \in 1..Len(inPiecePolygons) |-> polygonArea(inPiecePolygons[k])])

\* The pieces pushed for one tile, given its in-piece polygons, their total
\* area, its cut segments and the in-piece polygons in tile coordinates.
PiecesFrom(tile, shifted, totalInPieceArea, cutSegments) ==
    LET originalTileArea == R(tile.width * tile.height)
        offcutId == [tile |-> tile.id, kind |-> "offcut", i |-> -1]
        inPieces ==
            List([i \in 1..Len(shifted) |->
                     [id |-> [tile |-> tile.id, kind |-> "in", i |-> i - 1],
                      originalTile |-> tile, isOffcut |-> FALSE,
                      x |-> R(tile.x), y |-> R(tile.y),
                      polygons |-> <<shifted[i]>>,
                      wastePercentage |-> RZero]])
        wastePercentage ==
            IF RLt(RZero, originalTileArea)
            THEN RMul(RDiv(RSub(originalTileArea, totalInPieceArea),
                           originalTileArea), R(100))
            ELSE RZero
    IN  IF RLtEps(totalInPieceArea, AreaEpsDen)
        THEN << [id |-> offcutId, originalTile |-> tile, isOffcut |-> TRUE,
                 x |-> R(tile.x), y |-> R(tile.y),
                 polygons |-> <<LocalRect(tile)>>,
                 wastePercentage |-> R(100), cutSegments |-> <<>>] >>
        ELSE inPieces \o
             (IF RGtEps(RSub(originalTileArea, totalInPieceArea), AreaEpsDen)
              THEN << [id |-> offcutId, originalTile |-> tile, isOffcut |-> TRUE,
                       x |-> R(tile.x), y |-> R(tile.y),
                       polygons |-> <<LocalRect(tile)>> \o shifted,
                       wastePercentage |-> wastePercentage,
                       cutSegments |->
                           List([k \in 1..Len(cutSegments) |->
                                    ShiftPolygon(cutSegments[k], tile)])] >>
              ELSE <<>>)

PiecesOfPolygons(tile, inPiecePolygons) ==
    PiecesFrom(tile,
               List([i \in 1..Len(inPiecePolygons) |->
                        ShiftPolygon(inPiecePolygons[i], tile)]),
               TotalInPieceArea(inPiecePolygons),
               CutSegmentsOf(tile, inPiecePolygons))

\* The body of tiles.forEach in handleCut: the pieces one tile gives.
PiecesOfTile(tile, areaPolygons) ==
    PiecesOfPolygons(tile, InPiecePolygons(tile, areaPolygons))

PiecesOfTiles(tiles, areaPolygons) ==
    Flatten(List([t \in 1..Len(tiles) |-> PiecesOfTile(tiles[t], areaPolygons)]))

AllNewCutPieces(areas, tiles) ==
    PiecesOfTiles(tiles, CorrectedAreaPolygons(areas))

\* parseInt((number || '0-0').split('-')[1]): NaN for a number without '-'.
IsNaNOrdinal(number) == number # NullNumber /\ Len(number) < 2
ParseOrdinal(number) == IF number = NullNumber THEN 0 ELSE number[2]

\* numA - numB < 0; a NaN difference orders nothing.
OrdinalBefore(a, b) ==
    /\ ~IsNaNOrdinal(a.originalTile.number)
    /\ ~IsNaNOrdinal(b.originalTile.number)
    /\ ParseOrdinal(a.originalTile.number) < ParseOrdinal(b.originalTile.number)

ColorIndexBefore(a, b) == ColorIndexOf(a) < ColorIndexOf(b)

\* The colours of the offcuts, in list order.
OffcutColors(pieces) ==
    SelectIdx([i \in 1..Len(pieces) |-> pieces[i].originalTile.color],
              Indices([q \in 1..Len(pieces) |-> pieces[q].isOffcut]))

SortColors(keys) ==
    StableSort(keys, List([i \in 1..Len(keys) |-> List([j \in 1..Len(keys) |->
                              ColorIndexBefore(keys[i], keys[j])])]))

\* Array.from(offcutPiecesByColor.keys()).sort(by TILE_COLORS index)
SortedOffcutColors(pieces) == SortColors(FirstsOf(OffcutColors(pieces)))

\* idxs (indices into pieces) sorted by the ordinal of the tile's number.
SortRow(pieces, idxs) ==
    StableSort(idxs, List([i \in 1..Len(idxs) |-> List([j \in 1..Len(idxs) |->
                              OrdinalBefore(pieces[idxs[i]], pieces[idxs[j]])])]))

\* The indices (into pieces) of the offcuts of one colour, in row order.
RowOf(pieces, color) ==
    SortRow(pieces, Indices([q \in 1..Len(pieces) |->
                pieces[q].isOffcut /\ pieces[q].originalTile.color = color]))

IMax(S) == CHOOSE v \in S : \A w \in S : w <= v
IMin(S) == CHOOSE v \in S : \A w \in S : v <= w

\* Math.max(0, ...pieces.map(p => p.originalTile.height))
MaxHeightInRow(pieces, row) ==
    IMax({0} \cup {pieces[row[k]].originalTile.height : k \in 1..Len(row)})

\* allPoints: the points of every area, two corners of every tile.
AllPointsX(areas, tiles) ==
    UNION {{areas[a].points[k].x : k \in 1..Len(areas[a].points)} :
              a \in 1..Len(areas)}
    \cup {tiles[t].x : t \in 1..Len(tiles)}
    \cup {tiles[t].x + tiles[t].width : t \in 1..Len(tiles)}
AllPointsY(areas, tiles) ==
    UNION {{areas[a].points[k].y : k \in 1..Len(areas[a].points)} :
              a \in 1..Len(areas)}
    \cup {tiles[t].y : t \in 1..Len(tiles)}
    \cup {tiles[t].y + tiles[t].height : t \in 1..Len(tiles)}

\* The full tile width as the gap.
WholeWidth(tileDims) == R(tileDims.width)

\* const PADDING = tileDimensions.width / 2
PADDING(tileDims) == RDiv(R(tileDims.width), R(2))

RECURSIVE RowTop(_, _, _, _, _)
\* currentY when row r is laid out.
RowTop(pieces, rows, r, tileDims, startY) ==
    IF r = 1 THEN startY
    ELSE RAdd(RowTop(pieces, rows, r - 1, tileDims, startY),
              RAdd(R(MaxHeightInRow(pieces, rows[r - 1])),
                   RMul(PADDING(tileDims), R(2))))

RECURSIVE RowLeft(_, _, _, _, _)
\* currentX when the k-th piece of a row is laid out.
RowLeft(pieces, row, k, tileDims, minX) ==
    IF k = 1 THEN minX
    ELSE RAdd(RowLeft(pieces, row, k - 1, tileDims, minX),
              RAdd(R(pieces[row[k - 1]].originalTile.width), PADDING(tileDims)))

\* The rows of the layout, one per colour of sortedColors.
RowsOf(pieces, sortedColors) ==
    List([r \in 1..Len(sortedColors) |-> RowOf(pieces, sortedColors[r])])

\* Every offcut at its place in its row; the other pieces keep theirs.
PlaceRows(pieces, rows, tileDims, minX, startY) ==
    LET rowNo(i) == CHOOSE r \in 1..Len(rows) : \E k \in 1..Len(rows[r]) : rows[r][k] = i
        posIn(i) == CHOOSE k \in 1..Len(rows[rowNo(i)]) : rows[rowNo(i)][k] = i
    IN  List([i \in 1..Len(pieces) |->
                 IF pieces[i].isOffcut
                 THEN [pieces[i] EXCEPT
                          !.x = RowLeft(pieces, rows[rowNo(i)], posIn(i), tileDims, minX),
                          !.y = RowTop(pieces, rows, rowNo(i), tileDims, startY)]
                 ELSE pieces[i]])

\* minX and maxY of allPoints, 0 when there is no point.
MinX(xs) == IF xs = {} THEN RZero ELSE R(IMin(xs))
MaxY(ys) == IF ys = {} THEN RZero ELSE R(IMax(ys))

\* The offcuts laid out in rows by colour below the plan.
PackOffcuts(pieces, areas, tiles, tileDims) ==
    PlaceRows(pieces, RowsOf(pieces, SortedOffcutColors(pieces)), tileDims,
              MinX(AllPointsX(areas, tiles)),
              RAdd(MaxY(AllPointsY(areas, tiles)), RMul(PADDING(tileDims), R(3))))

\* allNewCutPieces as handleCut hands it on.
CutPiecesOf(areas, tiles, tileDims) ==
    PackOffcuts(AllNewCutPieces(areas, tiles), areas, tiles, tileDims)

\* p.isOffcut && p.wastePercentage >= 99.9
IsFullyWasted(piece) ==
    piece.isOffcut /\ RLe(<<999, 10>>, piece.wastePercentage)

FullyWastedIds(pieces) ==
    LET w(i) == IsFullyWasted(pieces[i])
        idxs == Indices([q \in 1..Len(pieces) |-> w(q)])
    IN  List([k \in 1..Len(idxs) |-> pieces[idxs[k]].id])

\* polygonAreaWithHoles of the statistics panel: outer minus the holes.
polygonAreaWithHoles(polygons) ==
    IF Len(polygons) = 0 THEN RZero
    ELSE RSub(polygonArea(polygons[1]),
              RSum([k \in 1..(Len(polygons) - 1) |-> polygonArea(polygons[k + 1])]))


(***************************************************************************)
(* The state of App (src/App.tsx:147-215), of SnapSettingsDialog and of    *)
(* Canvas (trackingGuides, snapPos); subject, clipRegion and kernelResult  *)
(* are the arguments and the result of a call of the geometry kernel.      *)
(* lastOp is a history variable: the handler that ran last and what it     *)
(* was given.                                                              *)
(***************************************************************************)
VARIABLES areas, tiles, tileDimensions, activeAreaIndex, history, historyIndex,
          activeTool, moveSnapshot, isMoveColliding, wallEditInfo,
          wallEditPreview, now,
          isCutViewActive, preCutState, cutPieces, wasteDeletionPrompt,
          snapModes, activeAngleSnap, activeLengthSnap, isSnapSettingsOpen,
          customAngle, customLength,
          trackingGuides, snapPos, snapIndicator,
          subject, clipRegion, kernelResult,
          previousToolRef,
          lastOp

docVars == <<areas, tiles, tileDimensions, activeAreaIndex, history,
             historyIndex, moveSnapshot, isMoveColliding, wallEditInfo,
             wallEditPreview, now>>
cutVars == <<isCutViewActive, preCutState, cutPieces, wasteDeletionPrompt>>
snapVars == <<snapModes, activeAngleSnap, activeLengthSnap>>
dialogVars == <<isSnapSettingsOpen, customAngle, customLength>>
canvasVars == <<trackingGuides, snapPos, snapIndicator>>
kernelVars == <<subject, clipRegion, kernelResult>>
vars == <<docVars, cutVars, activeTool, snapVars, dialogVars, canvasVars,
         kernelVars, previousToolRef, lastOp>>

\* number | null and the text of a number input: <<>> is null / '', <<v>> is v.
None == <<>>
Some(v) == <<v>>

\* INITIAL_STATE and the useState initial values.
InitialTileDimensions == [width |-> 465, height |-> 465]
InitialSnapModes == [grid |-> TRUE, osnap |-> TRUE, otrack |-> TRUE]
INITIAL_HISTORY_STATE == [areas |-> <<>>, tiles |-> <<>>]

InitDoc ==
    /\ areas = <<>>
    /\ tiles = <<>>
    /\ tileDimensions = InitialTileDimensions
    /\ activeAreaIndex = None
    /\ history = <<INITIAL_HISTORY_STATE>>
    /\ historyIndex = 0
    /\ moveSnapshot = Null
    /\ isMoveColliding = FALSE
    /\ wallEditInfo = Null
    /\ wallEditPreview = Null
    /\ now = 1000

InitCut ==
    /\ isCutViewActive = FALSE
    /\ preCutState = Null
    /\ cutPieces = Null
    /\ wasteDeletionPrompt = Null

InitSnap ==
    /\ snapModes = InitialSnapModes
    /\ activeAngleSnap = None
    /\ activeLengthSnap = None
    /\ isSnapSettingsOpen = FALSE
    /\ customAngle = <<>>
    /\ customLength = <<>>

\* Canvas: no tracking guides yet, and no mouse move has been resolved yet.
InitCanvas ==
    /\ trackingGuides = [lines |-> <<>>, intersection |-> Null]
    /\ snapPos = Null
    /\ snapIndicator = Null

\* useRef<Tool | null>(null): no tool is set aside for the space bar.
InitKeys == previousToolRef = None

\* The geometry functions have not been given a polygon.
InitKernel ==
    /\ subject = <<>>
    /\ clipRegion = <<>>
    /\ kernelResult = Null

Init ==
    /\ InitDoc
    /\ InitCut
    /\ InitSnap
    /\ InitCanvas
    /\ InitKeys
    /\ InitKernel
    /\ activeTool = "WALL"
    /\ lastOp = [op |-> "init"]

(***************************************************************************)
(* Snap state: the toolbar, the hotkeys and the polar snap dialog.         *)
(***************************************************************************)
PRESET_ANGLES == {1, 5, 10, 15, 30, 45, 90}
PRESET_LENGTHS == {10, 50, 100, 250, 500, 1000}

\* What the user types into the two custom inputs.
CustomAngleTexts == {<<>>, <<0>>, <<7>>, <<45>>}
CustomLengthTexts == {<<>>, <<0>>, <<75>>}

AllModes(b) == [grid |-> b, osnap |-> b, otrack |-> b]
AnyMode(modes) == modes.grid \/ modes.osnap \/ modes.otrack

isMasterSnapOn ==
    IF activeAngleSnap # None \/ activeLengthSnap # None THEN FALSE
    ELSE snapModes.grid /\ snapModes.osnap /\ snapModes.otrack

\* The modes left as they are.
SettledModesKeep(modes, angle, length) == modes

\* The effect of App on the snap state: a polar value switches the modes off.
SettledModes(modes, angle, length) ==
    IF (angle # None \/ length # None) /\ AnyMode(modes)
    THEN AllModes(FALSE)
    ELSE modes

\* The effect of the dialog on its inputs: the active value when it is not
\* a preset, else ''.
CustomTextFor(active, presets) ==
    IF active # None /\ active[1] \notin presets THEN active ELSE <<>>

\* The state after the handler's updates and the effects they trigger.
SettleSnap(modes, angle, length, open, angleText, lengthText) ==
    LET rerun == open /\ (~isSnapSettingsOpen \/ angle # activeAngleSnap
                                              \/ length # activeLengthSnap)
    IN  /\ snapModes' = SettledModes(modes, angle, length)
        /\ activeAngleSnap' = angle
        /\ activeLengthSnap' = length
        /\ isSnapSettingsOpen' = open
        /\ customAngle' = IF rerun THEN CustomTextFor(angle, PRESET_ANGLES)
                          ELSE angleText
        /\ customLength' = IF rerun THEN CustomTextFor(length, PRESET_LENGTHS)
                           ELSE lengthText

handleToggleMasterSnap ==
    /\ SettleSnap(AllModes(~isMasterSnapOn), None, None,
                  isSnapSettingsOpen, customAngle, customLength)
    /\ lastOp' = [op |-> "handleToggleMasterSnap"]
    /\ UNCHANGED <<docVars, cutVars, canvasVars, kernelVars, previousToolRef, activeTool>>

handleToggleSnapMode(mode) ==
    LET newModes == [snapModes EXCEPT ![mode] = ~snapModes[mode]]
        clear == AnyMode(newModes)
    IN  /\ SettleSnap(newModes,
                      IF clear THEN None ELSE activeAngleSnap,
                      IF clear THEN None ELSE activeLengthSnap,
                      isSnapSettingsOpen, customAngle, customLength)
        /\ lastOp' = [op |-> "handleToggleSnapMode", mode |-> mode]
        /\ UNCHANGED <<docVars, cutVars, canvasVars, kernelVars, previousToolRef, activeTool>>

\* The buttons of a SnapButtonGroup hand on null for the active value.
ButtonValue(active, val) == IF active = Some(val) THEN None ELSE Some(val)

handleAnglePresetChange(val) ==
    /\ isSnapSettingsOpen
    /\ LET arg == ButtonValue(activeAngleSnap, val)
       IN  SettleSnap(snapModes,
                      IF activeAngleSnap = arg THEN None ELSE arg,
                      activeLengthSnap, isSnapSettingsOpen, <<>>, customLength)
    /\ lastOp' = [op |-> "handleAnglePresetChange", val |-> val]
    /\ UNCHANGED <<docVars, cutVars, canvasVars, kernelVars, previousToolRef, activeTool>>

\* parseFloat(customAngle): not NaN and > 0
IsPositiveText(text) == text # <<>> /\ text[1] > 0

handleCustomAngleSet ==
    /\ isSnapSettingsOpen
    /\ SettleSnap(snapModes,
                  IF IsPositiveText(customAngle) THEN customAngle
                  ELSE IF customAngle = <<>>
                          /\ (activeAngleSnap = None
                              \/ activeAngleSnap[1] \notin PRESET_ANGLES)
                       THEN None
                       ELSE activeAngleSnap,
                  activeLengthSnap, isSnapSettingsOpen, customAngle, customLength)
    /\ lastOp' = [op |-> "handleCustomAngleSet"]
    /\ UNCHANGED <<docVars, cutVars, canvasVars, kernelVars, previousToolRef, activeTool>>

\* App renders the dialog without onLengthSnapChange: the call of the
\* missing callback throws before anything is set.
handleLengthPresetChange(val) ==
    /\ isSnapSettingsOpen
    /\ lastOp' = [op |-> "handleLengthPresetChange", val |-> val]
    /\ UNCHANGED <<docVars, cutVars, canvasVars, kernelVars, previousToolRef, activeTool, snapVars, dialogVars>>

\* Calls the missing callback for a positive text, and for '' when the
\* active length is no preset; does nothing for any other text.
handleCustomLengthSet ==
    /\ isSnapSettingsOpen
    /\ lastOp' = [op |-> "handleCustomLengthSet"]
    /\ UNCHANGED <<docVars, cutVars, canvasVars, kernelVars, previousToolRef, activeTool, snapVars, dialogVars>>

\* onChange of the two custom inputs
ChangeCustomAngle(text) ==
    /\ isSnapSettingsOpen
    /\ customAngle' = text
    /\ lastOp' = [op |-> "ChangeCustomAngle"]
    /\ UNCHANGED <<docVars, cutVars, canvasVars, kernelVars, previousToolRef, activeTool, snapVars, isSnapSettingsOpen,
                   customLength>>

ChangeCustomLength(text) ==
    /\ isSnapSettingsOpen
    /\ customLength' = text
    /\ lastOp' = [op |-> "ChangeCustomLength"]
    /\ UNCHANGED <<docVars, cutVars, canvasVars, kernelVars, previousToolRef, activeTool, snapVars, isSnapSettingsOpen,
                   customAngle>>

\* The 'p' key: opens the dialog and, outside the cut view, picks PAN.
OpenSnapSettingsKey ==
    /\ SettleSnap(snapModes, activeAngleSnap, activeLengthSnap, TRUE,
                  customAngle, customLength)
    /\ activeTool' = IF isCutViewActive THEN activeTool ELSE "PAN"
    /\ lastOp' = [op |-> "OpenSnapSettingsKey"]
    /\ UNCHANGED <<docVars, cutVars, canvasVars, kernelVars, previousToolRef>>

\* onOpenSettings of the snap toolbar
OpenSnapSettings ==
    /\ SettleSnap(snapModes, activeAngleSnap, activeLengthSnap, TRUE,
                  customAngle, customLength)
    /\ lastOp' = [op |-> "OpenSnapSettings"]
    /\ UNCHANGED <<docVars, cutVars, canvasVars, kernelVars, previousToolRef, activeTool>>

\* onClose of the dialog
CloseSnapSettings ==
    /\ isSnapSettingsOpen
    /\ isSnapSettingsOpen' = FALSE
    /\ lastOp' = [op |-> "CloseSnapSettings"]
    /\ UNCHANGED <<docVars, cutVars, canvasVars, kernelVars, previousToolRef, activeTool, snapVars, customAngle, customLength>>

handleReset ==
    /\ areas' = <<>>
    /\ tiles' = <<>>
    /\ activeAreaIndex' = None
    /\ activeTool' = "WALL"
    /\ tileDimensions' = InitialTileDimensions
    /\ SettleSnap(InitialSnapModes, None, None, isSnapSettingsOpen,
                  customAngle, customLength)
    /\ history' = <<INITIAL_HISTORY_STATE>>
    /\ historyIndex' = 0
    /\ isCutViewActive' = FALSE
    /\ preCutState' = Null
    /\ cutPieces' = Null
    /\ lastOp' = [op |-> "handleReset"]
    /\ UNCHANGED <<moveSnapshot, isMoveColliding, wallEditInfo, wallEditPreview,
                   now, wasteDeletionPrompt, canvasVars, kernelVars, previousToolRef>>

NextSnap ==
    \/ handleToggleMasterSnap
    \/ \E mode \in {"grid", "osnap", "otrack"} : handleToggleSnapMode(mode)
    \/ \E val \in PRESET_ANGLES : handleAnglePresetChange(val)
    \/ handleCustomAngleSet
    \/ \E val \in PRESET_LENGTHS : handleLengthPresetChange(val)
    \/ handleCustomLengthSet
    \/ \E text \in CustomAngleTexts : ChangeCustomAngle(text)
    \/ \E text \in CustomLengthTexts : ChangeCustomLength(text)
    \/ OpenSnapSettingsKey
    \/ OpenSnapSettings
    \/ CloseSnapSettings
    \/ handleReset

SpecSnap == Init /\ [][NextSnap]_vars

\* C3: in every settled state the snap events reach, a polar value (angle or
\* length) is never active together with any of grid, osnap, otrack.
C3_PolarExcludesModes ==
    (activeAngleSnap # None \/ activeLengthSnap # None) => ~AnyMode(snapModes)

\* A polar angle is set by the dialog while the modes were on before.
C3_Witness ==
    /\ lastOp.op \in {"handleAnglePresetChange", "handleCustomAngleSet"}
    /\ activeAngleSnap # None
    /\ ~AnyMode(snapModes)

(***************************************************************************)
(* Loading a project and cutting it.                                       *)
(***************************************************************************)
\* recordHistory (src/App.tsx:270-279)
recordHistory(newAreas, newTiles) ==
    IF isCutViewActive
    THEN UNCHANGED <<history, historyIndex>>
    ELSE LET newHistory == SubSeq(history, 1, historyIndex + 1)
         IN  /\ history' = Append(newHistory, [areas |-> newAreas, tiles |-> newTiles])
             /\ historyIndex' = Len(newHistory)

\* A closed visible area as the editor saves it: points p1..pn, the walls
\* between consecutive points and the closing wall.
MkPoint(id, xy) == [id |-> id, x |-> xy[1], y |-> xy[2]]
ClosedArea(id, corners) ==
    LET n == Len(corners)
    IN  [id |-> id, name |-> id,
         points |-> [k \in 1..n |-> MkPoint(10 * id + k, corners[k])],
         walls |-> [k \in 1..n |-> [id |-> 100 * id + k,
                                    p1Id |-> 10 * id + k,
                                    p2Id |-> 10 * id + NextIdx(k, n)]],
         isClosed |-> TRUE, isVisible |-> TRUE,
         calculationResult |-> NullResult]

MkTile(id, xy, size, color) ==
    [id |-> id, x |-> xy[1], y |-> xy[2], width |-> size[1], height |-> size[2],
     color |-> color, number |-> PlaceholderNumber]

\* The drawings of the project files (millimetres).
Square == << <<0, 0>>, <<1000, 0>>, <<1000, 1000>>, <<0, 1000>> >>
ShiftedSquare == << <<500, 500>>, <<1500, 500>>, <<1500, 1500>>, <<500, 1500>> >>
WideRect == << <<0, 0>>, <<1500, 0>>, <<1500, 500>>, <<0, 500>> >>
LShape ==
    << <<0, 0>>, <<1000, 0>>, <<1000, 500>>, <<500, 500>>, <<500, 1000>>,
       <<0, 1000>> >>
Triangle == << <<0, 0>>, <<1000, 0>>, <<0, 1000>> >>
Drawings ==
    {Square, Reverse(Square), Reverse(WideRect), LShape, Reverse(LShape), Triangle}

\* The area still being drawn: its walls join consecutive points only.
OpenArea(id, corners) ==
    LET closed == ClosedArea(id, corners)
    IN  [closed EXCEPT !.isClosed = FALSE,
                       !.walls = SubSeq(closed.walls, 1, Len(corners) - 1)]

\* The areas of a session: at most one finished area, then the open one.
SessionAreaLists ==
    {<<OpenArea(1, d)>> : d \in Drawings}
    \cup {<<ClosedArea(1, Square), OpenArea(2, ShiftedSquare)>>,
          <<[ClosedArea(1, Square) EXCEPT !.isVisible = FALSE],
            OpenArea(2, ShiftedSquare)>>}

\* Tiles laid on the grid of the tile size, and tiles laid with the grid
\* snap off: over the corner of the square, with a sliver of 1 x 100 inside
\* it, and away from every area.
SessionTilePositions ==
    {<<0, 0>>, <<500, 0>>, <<0, 500>>, <<500, 500>>, <<800, 800>>, <<999, 900>>,
     <<2000, 2000>>}
SessionTileColors == {TILE_COLORS[1], TILE_COLORS[2]}
SessionTileSize == <<500, 500>>
MaxSessionTiles == 2

RECURSIVE TileListsOfLen(_)
\* The lists of n tiles with the ids 1..n, no two at one place.
TileListsOfLen(n) ==
    IF n = 0 THEN {<<>>}
    ELSE UNION {{Append(l, MkTile(n, xy, SessionTileSize, c)) :
                    xy \in {p \in SessionTilePositions :
                               \A k \in 1..(n - 1) : <<l[k].x, l[k].y>> # p},
                    c \in SessionTileColors} :
                l \in TileListsOfLen(n - 1)}

\* The tile lists of a session: as the editor leaves them, renumbered.
SessionTileLists ==
    {renumberTilesByColor(l) :
         l \in UNION {TileListsOfLen(n) : n \in 1..MaxSessionTiles}}

SessionTileDimensions ==
    {[width |-> 500, height |-> 500], [width |-> 250, height |-> 500]}

\* Time passes between two events of the user.
EventGap == 2
\* Date.now(): the events of a session are EventGap ms apart, and a session
\* has at most MaxEvents events.
MaxEvents == 4
ClockRuns == now < 1000 + EventGap * MaxEvents
Tick == now' = now + EventGap
\* No drag is under way, no wall dialog is open, the plan view is shown.
Idle == moveSnapshot = Null /\ wallEditInfo = Null /\ ~isCutViewActive

\* An open area before its last corner was added.
WithoutLastPoint(area) ==
    [area EXCEPT !.points = SubSeq(area.points, 1, Len(area.points) - 1),
                 !.walls = SubSeq(area.walls, 1, Len(area.walls) - 1)]

\* A session restored from its autosave, in which the last corner of the
\* area being drawn was added, undone and redone: the finished areas carry
\* the statistics computed when they were closed.
InitPlan ==
    \E sa \in SessionAreaLists, st \in SessionTileLists, sd \in SessionTileDimensions :
        \E drawn \in {List([k \in 1..Len(sa) |->
                               IF sa[k].isClosed
                               THEN calculateStatsForArea(sa[k], st, sd)
                               ELSE sa[k]])} :
            /\ areas = drawn
            /\ tiles = st
            /\ tileDimensions = sd
            /\ activeAreaIndex = Some(Len(sa) - 1)
            /\ history =
                   <<[areas |-> [drawn EXCEPT ![Len(sa)] = WithoutLastPoint(drawn[Len(sa)])],
                      tiles |-> st],
                     [areas |-> drawn, tiles |-> st]>>
            /\ historyIndex = 1
            /\ now = 1000
            /\ moveSnapshot = Null
            /\ isMoveColliding = FALSE
            /\ wallEditInfo = Null
            /\ wallEditPreview = Null
            /\ InitCut
            /\ InitSnap
            /\ InitCanvas
            /\ InitKeys
            /\ InitKernel
            /\ activeTool = "WALL"
            /\ lastOp = [op |-> "init"]

\* areas[activeAreaIndex], undefined past the end of the list
HasActiveArea == activeAreaIndex # None /\ activeAreaIndex[1] < Len(areas)
activeArea == areas[activeAreaIndex[1] + 1]

\* The active area with its closing wall, closed.
ClosedWith(area, wallId) ==
    [area EXCEPT !.walls = Append(area.walls,
                                  [id |-> wallId,
                                   p1Id |-> area.points[Len(area.points)].id,
                                   p2Id |-> area.points[1].id]),
                 !.isClosed = TRUE]

closeActivePolygon ==
    /\ Idle /\ ClockRuns
    /\ HasActiveArea
    /\ Len(activeArea.points) >= 3
    /\ \E newAreas \in {[areas EXCEPT ![activeAreaIndex[1] + 1] =
                             calculateStatsForArea(ClosedWith(activeArea, now),
                                                   tiles, tileDimensions)]} :
           /\ areas' = newAreas
           /\ recordHistory(newAreas, tiles)
    /\ activeAreaIndex' = None
    /\ now' = now + EventGap
    /\ lastOp' = [op |-> "closeActivePolygon", index |-> activeAreaIndex[1]]
    /\ UNCHANGED <<tiles, tileDimensions, moveSnapshot, isMoveColliding,
                   wallEditInfo, wallEditPreview, cutVars, activeTool, snapVars,
                   dialogVars, canvasVars, kernelVars, previousToolRef>>

handleCut ==
    /\ ~isCutViewActive
    /\ wasteDeletionPrompt = Null
    /\ IF Len(ClosedVisibleAreas(areas)) = 0 \/ Len(tiles) = 0
       THEN UNCHANGED <<cutVars, activeTool>>
       ELSE \E allNewCutPieces \in {CutPiecesOf(areas, tiles, tileDimensions)} :
            \E piecesToDeleteIds \in {FullyWastedIds(allNewCutPieces)} :
                /\ preCutState' = [areas |-> areas, tiles |-> tiles]
                /\ IF Len(piecesToDeleteIds) > 0
                   THEN /\ wasteDeletionPrompt' =
                               [allPieces |-> allNewCutPieces,
                                piecesToDeleteIds |-> piecesToDeleteIds]
                        /\ UNCHANGED <<cutPieces, isCutViewActive, activeTool>>
                   ELSE /\ cutPieces' = allNewCutPieces
                        /\ isCutViewActive' = TRUE
                        /\ activeTool' = "MOVE"
                        /\ UNCHANGED wasteDeletionPrompt
    /\ lastOp' = [op |-> "handleCut"]
    /\ UNCHANGED <<docVars, snapVars, dialogVars, canvasVars, kernelVars, previousToolRef>>

SeqToSet(s) == {s[k] : k \in 1..Len(s)}

\* The ids of the tiles whose offcut is deleted.
OriginalTileIdsToDelete(allPieces, piecesToDeleteIdSet) ==
    {allPieces[k].originalTile.id : k \in
        {k \in 1..Len(allPieces) :
            allPieces[k].id \in piecesToDeleteIdSet /\ allPieces[k].isOffcut}}

\* s.filter(e => !ids.has(e.id))
WithoutIds(s, ids) ==
    SelectIdx(s, Indices([k \in 1..Len(s) |-> s[k].id \notin ids]))

handleConfirmDeleteWaste ==
    /\ wasteDeletionPrompt # Null
    /\ preCutState # Null
    /\ \E piecesToDeleteIdSet \in {SeqToSet(wasteDeletionPrompt.piecesToDeleteIds)} :
       \E renumberedTiles \in
              {renumberTilesByColor(
                   WithoutIds(preCutState.tiles,
                              OriginalTileIdsToDelete(wasteDeletionPrompt.allPieces,
                                                      piecesToDeleteIdSet)))} :
           /\ tiles' = renumberedTiles
           /\ preCutState' = [areas |-> preCutState.areas, tiles |-> renumberedTiles]
           /\ cutPieces' = WithoutIds(wasteDeletionPrompt.allPieces, piecesToDeleteIdSet)
           /\ isCutViewActive' = TRUE
           /\ activeTool' = "MOVE"
           /\ recordHistory(preCutState.areas, renumberedTiles)
           /\ wasteDeletionPrompt' = Null
    /\ lastOp' = [op |-> "handleConfirmDeleteWaste"]
    /\ UNCHANGED <<areas, tileDimensions, activeAreaIndex, moveSnapshot,
                   isMoveColliding, wallEditInfo, wallEditPreview, now,
                   snapVars, dialogVars, canvasVars, kernelVars, previousToolRef>>

handleKeepWaste ==
    /\ wasteDeletionPrompt # Null
    /\ cutPieces' = wasteDeletionPrompt.allPieces
    /\ isCutViewActive' = TRUE
    /\ activeTool' = "MOVE"
    /\ wasteDeletionPrompt' = Null
    /\ lastOp' = [op |-> "handleKeepWaste"]
    /\ UNCHANGED <<docVars, preCutState, snapVars, dialogVars, canvasVars, kernelVars, previousToolRef>>

handleRestore ==
    /\ isCutViewActive
    /\ IF preCutState # Null
       THEN areas' = preCutState.areas /\ tiles' = preCutState.tiles
       ELSE UNCHANGED <<areas, tiles>>
    /\ isCutViewActive' = FALSE
    /\ preCutState' = Null
    /\ cutPieces' = Null
    /\ activeTool' = "POINTER"
    /\ lastOp' = [op |-> "handleRestore"]
    /\ UNCHANGED <<tileDimensions, activeAreaIndex, history, historyIndex,
                   moveSnapshot, isMoveColliding, wallEditInfo, wallEditPreview,
                   now, wasteDeletionPrompt, snapVars, dialogVars, canvasVars, kernelVars, previousToolRef>>

NextPlan ==
    \/ closeActivePolygon
    \/ handleCut
    \/ handleConfirmDeleteWaste
    \/ handleKeepWaste
    \/ handleRestore

SpecPlan == InitPlan /\ [][NextPlan]_vars

(***************************************************************************)
(* Drawing and editing the plan.  The canvas calls a handler only with the *)
(* tool of its gesture picked; handleToolChange sets nothing but the tool, *)
(* so the handlers are modelled without the tool.  While a drag is under   *)
(* way or the wall dialog is open the canvas takes no other gesture.       *)
(***************************************************************************)

\* s.findIndex(keep), 0-based, -1 when nothing is kept.
FindIndex(keep) ==
    IF \E i \in 1..Len(keep) : keep[i]
    THEN (CHOOSE i \in 1..Len(keep) : keep[i] /\ \A j \in 1..(i - 1) : ~keep[j]) - 1
    ELSE -1

\* areas.findIndex(area => !area.isClosed)
FirstOpenIndex(as) == FindIndex([i \in 1..Len(as) |-> ~as[i].isClosed])
\* areas.findIndex(a => a.id === id)
AreaIndexOf(as, id) == FindIndex([i \in 1..Len(as) |-> as[i].id = id])

\* getNextAreaName: the least N >= 1 that no area is named "Area N" after.
getNextAreaName(as) ==
    CHOOSE n \in 1..(Len(as) + 1) :
        /\ \A i \in 1..Len(as) : as[i].name # n
        /\ \A m \in 1..(n - 1) : \E i \in 1..Len(as) : as[i].name = m

\* The index before the first area with a greater number, else the length.
InsertionIndex(as, newAreaNumber) ==
    IF FindIndex([i \in 1..Len(as) |-> as[i].name > newAreaNumber]) = -1
    THEN Len(as)
    ELSE FindIndex([i \in 1..Len(as) |-> as[i].name > newAreaNumber])

\* newAreas.splice(index, 0, e)
InsertAt(s, index, e) == SubSeq(s, 1, index) \o <<e>> \o SubSeq(s, index + 1, Len(s))

NewArea(id, name) ==
    [id |-> id, name |-> name, points |-> <<>>, walls |-> <<>>,
     isClosed |-> FALSE, isVisible |-> TRUE, calculationResult |-> NullResult]

\* targetArea after the push of the new point and of the wall that joins it
\* to the point before.
WithPoint(targetArea, newPoint, wallId) ==
    [targetArea EXCEPT
        !.points = Append(targetArea.points, newPoint),
        !.walls = IF Len(targetArea.points) >= 1
                  THEN Append(targetArea.walls,
                              [id |-> wallId,
                               p1Id |-> targetArea.points[Len(targetArea.points)].id,
                               p2Id |-> newPoint.id])
                  ELSE targetArea.walls]

\* newAreas and targetIndex of handleAddPoint before the point is pushed.
AreasForNewPoint(as, time) ==
    IF FirstOpenIndex(as) # -1 THEN as
    ELSE InsertAt(as, InsertionIndex(as, getNextAreaName(as)),
                  NewArea(time, getNextAreaName(as)))
TargetIndexForNewPoint(as) ==
    IF FirstOpenIndex(as) # -1 THEN FirstOpenIndex(as)
    ELSE InsertionIndex(as, getNextAreaName(as))

handleAddPoint(point) ==
    /\ Idle /\ ClockRuns
    /\ \E targetIndex \in {TargetIndexForNewPoint(areas)} :
       \E withArea \in {AreasForNewPoint(areas, now)} :
       \E newAreas \in {[withArea EXCEPT ![targetIndex + 1] =
                            WithPoint(withArea[targetIndex + 1],
                                      [id |-> now, x |-> point[1], y |-> point[2]],
                                      now + 1)]} :
           /\ areas' = newAreas
           /\ activeAreaIndex' = IF FirstOpenIndex(areas) = -1
                                 THEN Some(targetIndex) ELSE activeAreaIndex
           /\ recordHistory(newAreas, tiles)
    /\ Tick
    /\ lastOp' = [op |-> "handleAddPoint"]
    /\ UNCHANGED <<tiles, tileDimensions, moveSnapshot, isMoveColliding,
                   wallEditInfo, wallEditPreview, cutVars, activeTool, snapVars,
                   dialogVars, canvasVars, kernelVars, previousToolRef>>

\* After an undo or redo the active area is the first open one.
ActiveAfter(as) ==
    IF FirstOpenIndex(as) # -1 THEN Some(FirstOpenIndex(as)) ELSE None

handleUndo ==
    /\ ClockRuns
    /\ historyIndex > 0 /\ ~isCutViewActive
    /\ moveSnapshot = Null /\ wallEditInfo = Null
    /\ areas' = history[historyIndex].areas
    /\ tiles' = history[historyIndex].tiles
    /\ historyIndex' = historyIndex - 1
    /\ activeAreaIndex' = ActiveAfter(history[historyIndex].areas)
    /\ lastOp' = [op |-> "handleUndo"]
    /\ Tick
    /\ UNCHANGED <<tileDimensions, history, moveSnapshot, isMoveColliding,
                   wallEditInfo, wallEditPreview, cutVars, activeTool,
                   snapVars, dialogVars, canvasVars, kernelVars, previousToolRef>>

handleRedo ==
    /\ ClockRuns
    /\ historyIndex < Len(history) - 1 /\ ~isCutViewActive
    /\ moveSnapshot = Null /\ wallEditInfo = Null
    /\ areas' = history[historyIndex + 2].areas
    /\ tiles' = history[historyIndex + 2].tiles
    /\ historyIndex' = historyIndex + 1
    /\ activeAreaIndex' = ActiveAfter(history[historyIndex + 2].areas)
    /\ lastOp' = [op |-> "handleRedo"]
    /\ Tick
    /\ UNCHANGED <<tileDimensions, history, moveSnapshot, isMoveColliding,
                   wallEditInfo, wallEditPreview, cutVars, activeTool,
                   snapVars, dialogVars, canvasVars, kernelVars, previousToolRef>>

\* An item of an erase batch: [type, id, areaId], areaId 0 when undefined.
EraseTile(st, item) ==
    [st EXCEPT !.tiles = SelectIdx(st.tiles, Indices([k \in 1..Len(st.tiles) |->
                                       st.tiles[k].id # item.id])),
               !.tilesChanged = TRUE]

EraseArea(st, item) ==
    [st EXCEPT !.areas = SelectIdx(st.areas, Indices([k \in 1..Len(st.areas) |->
                                       st.areas[k].id # item.id])),
               !.activeAreaNeedsUpdate =
                   \/ st.activeAreaNeedsUpdate
                   \/ (HasActiveArea /\ item.id = activeArea.id)]

\* The area reopened with its statistics kept.
ReopenedWithStats(area) ==
    IF area.isClosed THEN [area EXCEPT !.isClosed = FALSE] ELSE area

\* if (area.isClosed) { area.isClosed = false; area.calculationResult = null }
Reopened(area) ==
    IF area.isClosed
    THEN [area EXCEPT !.isClosed = FALSE, !.calculationResult = NullResult]
    ELSE area

PointErased(area, pointId) ==
    Reopened([area EXCEPT
        !.points = SelectIdx(area.points, Indices([k \in 1..Len(area.points) |->
                                 area.points[k].id # pointId])),
        !.walls = SelectIdx(area.walls, Indices([k \in 1..Len(area.walls) |->
                                /\ area.walls[k].p1Id # pointId
                                /\ area.walls[k].p2Id # pointId]))])

\* area.walls.find(w => w.id === wallId) exists
HasWall(area, wallId) == \E k \in 1..Len(area.walls) : area.walls[k].id = wallId
FindWall(area, wallId) ==
    area.walls[CHOOSE k \in 1..Len(area.walls) :
                   /\ area.walls[k].id = wallId
                   /\ \A j \in 1..(k - 1) : area.walls[j].id # wallId]

\* The ends of the deleted wall that no remaining wall uses.
PointsToDelete(remainingWalls, wall) ==
    {pid \in {wall.p1Id, wall.p2Id} :
        ~\E k \in 1..Len(remainingWalls) :
            remainingWalls[k].p1Id = pid \/ remainingWalls[k].p2Id = pid}

WithoutPoints(area, remainingWalls, pointsToDelete) ==
    [area EXCEPT
        !.walls = remainingWalls,
        !.points = SelectIdx(area.points, Indices([k \in 1..Len(area.points) |->
                                 area.points[k].id \notin pointsToDelete]))]

WallErasedTo(area, remainingWalls, wall) ==
    Reopened(WithoutPoints(area, remainingWalls, PointsToDelete(remainingWalls, wall)))

WallErased(area, wallId) ==
    WallErasedTo(area,
                 SelectIdx(area.walls, Indices([k \in 1..Len(area.walls) |->
                               area.walls[k].id # wallId])),
                 FindWall(area, wallId))

\* The point or wall branch of the loop, for the area at areaIndex (0-based).
EraseInArea(st, item, areaIndex) ==
    IF areaIndex = -1 THEN st
    ELSE IF item.type = "point"
    THEN [st EXCEPT !.areas[areaIndex + 1] = PointErased(st.areas[areaIndex + 1], item.id),
                    !.activeAreaNeedsUpdate =
                        st.activeAreaNeedsUpdate \/ st.areas[areaIndex + 1].isClosed]
    ELSE IF item.type = "wall" /\ HasWall(st.areas[areaIndex + 1], item.id)
    THEN [st EXCEPT !.areas[areaIndex + 1] = WallErased(st.areas[areaIndex + 1], item.id),
                    !.activeAreaNeedsUpdate =
                        st.activeAreaNeedsUpdate \/ st.areas[areaIndex + 1].isClosed]
    ELSE st

\* The body of "for (const item of batch)".
EraseItem(st, item) ==
    IF item.type = "tile" THEN EraseTile(st, item)
    ELSE IF item.type = "area" THEN EraseArea(st, item)
    ELSE IF item.areaId # 0 THEN EraseInArea(st, item, AreaIndexOf(st.areas, item.areaId))
    ELSE st

RECURSIVE EraseItems(_, _, _)
EraseItems(st, batch, i) ==
    IF i > Len(batch) THEN st
    ELSE EraseItems(EraseItem(st, batch[i]), batch, i + 1)

\* workingAreas and workingTiles after the loop and the renumbering.
Erased(batch) ==
    EraseItems([areas |-> areas, tiles |-> tiles, tilesChanged |-> FALSE,
                activeAreaNeedsUpdate |-> FALSE], batch, 1)

\* prev!.filter(p => !idsToErase.has(p.id))
WithoutErased(pieces, batch) ==
    SelectIdx(pieces, Indices([k \in 1..Len(pieces) |->
                                  \A i \in 1..Len(batch) : batch[i].id # pieces[k].id]))

handleEraseBatch(batch) ==
    /\ moveSnapshot = Null /\ wallEditInfo = Null /\ ClockRuns
    /\ IF isCutViewActive
       THEN /\ cutPieces' = WithoutErased(cutPieces, batch)
            /\ UNCHANGED <<areas, tiles, history, historyIndex, activeAreaIndex>>
       ELSE
       \E st \in {Erased(batch)} :
       \E workingTiles \in {IF st.tilesChanged THEN renumberTilesByColor(st.tiles)
                            ELSE st.tiles} :
           /\ areas' = st.areas
           /\ tiles' = workingTiles
           /\ recordHistory(st.areas, workingTiles)
           /\ activeAreaIndex' = IF st.activeAreaNeedsUpdate
                                 THEN ActiveAfter(st.areas) ELSE activeAreaIndex
           /\ UNCHANGED cutPieces
    /\ lastOp' = [op |-> "handleEraseBatch", batch |-> batch]
    /\ Tick
    /\ UNCHANGED <<tileDimensions, moveSnapshot, isMoveColliding, wallEditInfo,
                   wallEditPreview, isCutViewActive, preCutState,
                   wasteDeletionPrompt, activeTool, snapVars, dialogVars, canvasVars, kernelVars, previousToolRef>>

\* A selection is [type, id, areaId]; the first element with an id is the
\* one Array.find gives.
HasId(s, id) == \E k \in 1..Len(s) : s[k].id = id
FindById(s, id) ==
    s[CHOOSE k \in 1..Len(s) : s[k].id = id /\ \A j \in 1..(k - 1) : s[j].id # id]

\* itemsToMove of a wall: its two end points, when both exist.
WallEnds(area, wall) ==
    IF HasId(area.points, wall.p1Id) /\ HasId(area.points, wall.p2Id)
    THEN <<FindById(area.points, wall.p1Id), FindById(area.points, wall.p2Id)>>
    ELSE <<>>

\* cutPieces is a list, not null, exactly while the cut view is shown.
ItemsToMove(selection) ==
    IF selection.type = "cutPiece"
    THEN (IF isCutViewActive /\ HasId(cutPieces, selection.id)
          THEN <<FindById(cutPieces, selection.id)>> ELSE <<>>)
    ELSE IF selection.type = "tile"
    THEN (IF HasId(tiles, selection.id) THEN <<FindById(tiles, selection.id)>> ELSE <<>>)
    ELSE IF ~HasId(areas, selection.areaId) THEN <<>>
    ELSE IF selection.type = "point"
    THEN (IF HasId(FindById(areas, selection.areaId).points, selection.id)
          THEN <<FindById(FindById(areas, selection.areaId).points, selection.id)>>
          ELSE <<>>)
    ELSE IF selection.type = "wall"
    THEN (IF HasId(FindById(areas, selection.areaId).walls, selection.id)
          THEN WallEnds(FindById(areas, selection.areaId),
                        FindById(FindById(areas, selection.areaId).walls, selection.id))
          ELSE <<>>)
    ELSE FindById(areas, selection.areaId).points

handleSelectForMove(selection, currentMousePos) ==
    /\ moveSnapshot = Null /\ wallEditInfo = Null /\ ClockRuns
    /\ moveSnapshot' = [selection |-> selection,
                        initialMousePos |-> currentMousePos,
                        initialPoints |-> ItemsToMove(selection)]
    /\ lastOp' = [op |-> "handleSelectForMove"]
    /\ Tick
    /\ UNCHANGED <<areas, tiles, tileDimensions, activeAreaIndex, history,
                   historyIndex, isMoveColliding, wallEditInfo, wallEditPreview,
                   cutVars, activeTool, snapVars, dialogVars, canvasVars, kernelVars, previousToolRef>>

\* The first point of the area with that id set to a position.
SetFirstPoint(area, pointId, x, y) ==
    IF ~HasId(area.points, pointId) THEN area
    ELSE [area EXCEPT !.points =
             [k \in 1..Len(area.points) |->
                 IF area.points[k].id = pointId
                    /\ \A j \in 1..(k - 1) : area.points[j].id # pointId
                 THEN [area.points[k] EXCEPT !.x = x, !.y = y]
                 ELSE area.points[k]]]

RECURSIVE ShiftPoints(_, _, _, _, _)
\* initialPoints.forEach: each found point set to its initial position + d.
ShiftPoints(area, initialPoints, dx, dy, i) ==
    IF i > Len(initialPoints) THEN area
    ELSE ShiftPoints(SetFirstPoint(area, initialPoints[i].id,
                                   initialPoints[i].x + dx, initialPoints[i].y + dy),
                     initialPoints, dx, dy, i + 1)

\* Math.round(v / unit) * unit
RoundTo(v, unit) == ((2 * v + unit) \div (2 * unit)) * unit

\* The position the dragged tile is shown at.
DraggedTileX(initialTile, dx) ==
    IF snapModes.grid THEN RoundTo(initialTile.x + dx, tileDimensions.width)
    ELSE initialTile.x + dx
DraggedTileY(initialTile, dy) ==
    IF snapModes.grid THEN RoundTo(initialTile.y + dy, tileDimensions.height)
    ELSE initialTile.y + dy

\* prevAreas with the area of the selection replaced.
WithAreaOfId(as, areaId, newArea) ==
    [k \in 1..Len(as) |->
        IF k = AreaIndexOf(as, areaId) + 1 THEN newArea ELSE as[k]]

MoveTile(selection, initialTile, newX, newY) ==
    /\ isMoveColliding' =
           \E k \in 1..Len(tiles) :
               /\ tiles[k].id # selection.id
               /\ rectanglesIntersect([initialTile EXCEPT !.x = newX, !.y = newY],
                                      tiles[k])
    /\ tiles' = [k \in 1..Len(tiles) |->
                    IF tiles[k].id = selection.id
                    THEN [tiles[k] EXCEPT !.x = newX, !.y = newY]
                    ELSE tiles[k]]
    /\ UNCHANGED areas

\* prev!.map(p => p.id === selection.id ? { ...p, x: newX, y: newY } : p)
MovedPiece(selection, initialPiece, dx, dy) ==
    [k \in 1..Len(cutPieces) |->
        IF cutPieces[k].id = selection.id
        THEN [cutPieces[k] EXCEPT !.x = RAdd(initialPiece.x, R(dx)),
                                  !.y = RAdd(initialPiece.y, R(dy))]
        ELSE cutPieces[k]]

handleMoveSelection(currentMousePos, snappedMousePos) ==
    /\ ClockRuns
    /\ moveSnapshot # Null
    /\ LET selection == moveSnapshot.selection
           dx == currentMousePos[1] - moveSnapshot.initialMousePos[1]
           dy == currentMousePos[2] - moveSnapshot.initialMousePos[2]
           newPosition == IF snappedMousePos # Null THEN snappedMousePos
                          ELSE currentMousePos
       IN  IF selection.type = "cutPiece"
           THEN /\ cutPieces' = MovedPiece(selection, moveSnapshot.initialPoints[1],
                                           dx, dy)
                /\ UNCHANGED <<areas, tiles, isMoveColliding>>
           ELSE IF selection.type = "point"
           THEN /\ areas' =
                       IF HasId(areas, selection.areaId)
                       THEN WithAreaOfId(areas, selection.areaId,
                                SetFirstPoint(FindById(areas, selection.areaId),
                                              selection.id,
                                              newPosition[1], newPosition[2]))
                       ELSE areas
                /\ UNCHANGED <<tiles, isMoveColliding, cutPieces>>
           ELSE IF selection.type = "tile"
           THEN /\ MoveTile(selection, moveSnapshot.initialPoints[1],
                            DraggedTileX(moveSnapshot.initialPoints[1], dx),
                            DraggedTileY(moveSnapshot.initialPoints[1], dy))
                /\ UNCHANGED cutPieces
           ELSE /\ areas' =
                       IF HasId(areas, selection.areaId)
                       THEN WithAreaOfId(areas, selection.areaId,
                                ShiftPoints(FindById(areas, selection.areaId),
                                            moveSnapshot.initialPoints, dx, dy, 1))
                       ELSE areas
                /\ UNCHANGED <<tiles, isMoveColliding, cutPieces>>
    /\ lastOp' = [op |-> "handleMoveSelection"]
    /\ Tick
    /\ UNCHANGED <<tileDimensions, activeAreaIndex, history, historyIndex,
                   moveSnapshot, wallEditInfo, wallEditPreview, isCutViewActive,
                   preCutState, wasteDeletionPrompt,
                   activeTool, snapVars, dialogVars, canvasVars, kernelVars, previousToolRef>>

\* finalAreas: the moved area's statistics computed again.
AreasAfterMove(selection) ==
    [k \in 1..Len(areas) |->
        IF /\ areas[k].isClosed /\ Len(areas[k].points) > 2
           /\ selection.type # "tile" /\ areas[k].id = selection.areaId
        THEN calculateStatsForArea(areas[k], tiles, tileDimensions)
        ELSE areas[k]]

\* workingTiles: the dragged tile back at its place.
TilesAfterCollision(originalTile) ==
    [k \in 1..Len(tiles) |->
        IF tiles[k].id = originalTile.id THEN originalTile ELSE tiles[k]]

handleMoveSelectionEnd ==
    /\ moveSnapshot # Null
    /\ ClockRuns
    /\ IF moveSnapshot.selection.type = "cutPiece"
       THEN UNCHANGED <<areas, tiles, history, historyIndex>>
       ELSE
       \E finalAreas \in
              {IF isMoveColliding /\ moveSnapshot.selection.type = "tile"
               THEN areas ELSE List(AreasAfterMove(moveSnapshot.selection))} :
       \E renumberedFinalTiles \in
              {renumberTilesByColor(
                   IF isMoveColliding /\ moveSnapshot.selection.type = "tile"
                   THEN List(TilesAfterCollision(moveSnapshot.initialPoints[1]))
                   ELSE tiles)} :
           /\ areas' = finalAreas
           /\ tiles' = renumberedFinalTiles
           /\ recordHistory(finalAreas, renumberedFinalTiles)
    /\ moveSnapshot' = Null
    /\ isMoveColliding' = FALSE
    /\ lastOp' = [op |-> "handleMoveSelectionEnd"]
    /\ Tick
    /\ UNCHANGED <<tileDimensions, activeAreaIndex, wallEditInfo, wallEditPreview,
                   cutVars, activeTool, snapVars, dialogVars, canvasVars, kernelVars, previousToolRef>>

\* onOpenWallEditDialog
OpenWallEditDialog(wallId, areaId) ==
    /\ Idle /\ ClockRuns
    /\ wallEditInfo' = [wallId |-> wallId, areaId |-> areaId]
    /\ lastOp' = [op |-> "OpenWallEditDialog"]
    /\ Tick
    /\ UNCHANGED <<areas, tiles, tileDimensions, activeAreaIndex, history,
                   historyIndex, moveSnapshot, isMoveColliding, wallEditPreview,
                   cutVars, activeTool, snapVars, dialogVars, canvasVars, kernelVars, previousToolRef>>

\* wallToEditData is not null: the area, the wall and its two ends exist.
HasWallToEdit ==
    /\ wallEditInfo # Null
    /\ HasId(areas, wallEditInfo.areaId)
    /\ HasId(FindById(areas, wallEditInfo.areaId).walls, wallEditInfo.wallId)
    /\ WallEnds(FindById(areas, wallEditInfo.areaId),
                FindById(FindById(areas, wallEditInfo.areaId).walls,
                         wallEditInfo.wallId)) # <<>>
\* <<p1, p2>> of wallToEditData
WallToEditEnds ==
    WallEnds(FindById(areas, wallEditInfo.areaId),
             FindById(FindById(areas, wallEditInfo.areaId).walls, wallEditInfo.wallId))

\* The preview for the wall fixedPoint-movingPoint.  The model edits the
\* walls that run along an axis: their length |dx| + |dy| is an integer.
PreviewPosition(fixedPoint, movingPoint, newLength) ==
    LET dx == movingPoint.x - fixedPoint.x
        dy == movingPoint.y - fixedPoint.y
        currentLength == IAbs(dx) + IAbs(dy)
    IN  IF currentLength = 0
        THEN [x |-> R(fixedPoint.x + newLength), y |-> R(fixedPoint.y)]
        ELSE [x |-> RAdd(R(fixedPoint.x), RMul(R(dx), RDiv(R(newLength), R(currentLength)))),
              y |-> RAdd(R(fixedPoint.y), RMul(R(dy), RDiv(R(newLength), R(currentLength))))]

AlongAxis(p1, p2) == p1.x = p2.x \/ p1.y = p2.y

handlePreviewWallEdit(newLength, fixedPointId) ==
    /\ ClockRuns
    /\ HasWallToEdit
    /\ AlongAxis(WallToEditEnds[1], WallToEditEnds[2])
    /\ \E p1 \in {WallToEditEnds[1]}, p2 \in {WallToEditEnds[2]} :
       \E position \in {IF fixedPointId = p1.id
                        THEN PreviewPosition(p1, p2, newLength)
                        ELSE PreviewPosition(p2, p1, newLength)} :
           \* the model keeps the coordinates of the plan integers
           /\ position.x[2] = 1 /\ position.y[2] = 1
           /\ wallEditPreview' =
                  [movingPointId |-> IF fixedPointId = p1.id THEN p2.id ELSE p1.id,
                   newPosition |-> [x |-> position.x[1], y |-> position.y[1]]]
    /\ lastOp' = [op |-> "handlePreviewWallEdit"]
    /\ Tick
    /\ UNCHANGED <<areas, tiles, tileDimensions, activeAreaIndex, history,
                   historyIndex, moveSnapshot, isMoveColliding, wallEditInfo,
                   cutVars, activeTool, snapVars, dialogVars, canvasVars, kernelVars, previousToolRef>>

\* area.points.map(point => point.id === movingPointId ? {...point, ...newPosition} : point)
WithMovedPoint(area, movingPointId, newPosition) ==
    [area EXCEPT !.points =
        [k \in 1..Len(area.points) |->
            IF area.points[k].id = movingPointId
            THEN [area.points[k] EXCEPT !.x = newPosition.x, !.y = newPosition.y]
            ELSE area.points[k]]]

AreasAfterWallEdit(areaId, movingPointId, newPosition) ==
    [k \in 1..Len(areas) |->
        IF areas[k].id # areaId THEN areas[k]
        ELSE IF areas[k].isClosed
        THEN calculateStatsForArea(WithMovedPoint(areas[k], movingPointId, newPosition),
                                   tiles, tileDimensions)
        ELSE WithMovedPoint(areas[k], movingPointId, newPosition)]

handleConfirmWallEdit ==
    /\ wallEditInfo # Null /\ wallEditPreview # Null
    /\ ClockRuns
    /\ \E finalAreas \in {List(AreasAfterWallEdit(wallEditInfo.areaId,
                                                   wallEditPreview.movingPointId,
                                                   wallEditPreview.newPosition))} :
           /\ areas' = finalAreas
           /\ recordHistory(finalAreas, tiles)
    /\ wallEditInfo' = Null
    /\ wallEditPreview' = Null
    /\ lastOp' = [op |-> "handleConfirmWallEdit"]
    /\ Tick
    /\ UNCHANGED <<tiles, tileDimensions, activeAreaIndex, moveSnapshot,
                   isMoveColliding, cutVars, activeTool, snapVars, dialogVars, canvasVars, kernelVars, previousToolRef>>

handleCloseWallEditDialog ==
    /\ ClockRuns
    /\ wallEditInfo # Null
    /\ wallEditInfo' = Null
    /\ wallEditPreview' = Null
    /\ lastOp' = [op |-> "handleCloseWallEditDialog"]
    /\ Tick
    /\ UNCHANGED <<areas, tiles, tileDimensions, activeAreaIndex, history,
                   historyIndex, moveSnapshot, isMoveColliding, cutVars,
                   activeTool, snapVars, dialogVars, canvasVars, kernelVars, previousToolRef>>

\* The ids of the tiles that a candidate of the batch intersects.
TilesToDeleteIds(candidates) ==
    {tiles[k].id : k \in {k \in 1..Len(tiles) :
        \E c \in 1..Len(candidates) : rectanglesIntersect(candidates[c], tiles[k])}}

\* The new tiles of a batch: id time + i, number '0'.
NewTiles(candidates, time) ==
    List([i \in 1..Len(candidates) |->
             [id |-> time + (i - 1), x |-> candidates[i].x, y |-> candidates[i].y,
              width |-> candidates[i].width, height |-> candidates[i].height,
              color |-> candidates[i].color, number |-> PlaceholderNumber]])

handleAddTilesBatch(tilesToAdd) ==
    /\ Idle /\ ClockRuns
    /\ Len(tilesToAdd) > 0
    /\ \E input \in {WithoutIds(tiles, TilesToDeleteIds(tilesToAdd))
                     \o NewTiles(tilesToAdd, now)} :
       \E finalTiles \in {renumberTilesByColor(input)} :
           /\ tiles' = finalTiles
           /\ recordHistory(areas, finalTiles)
           /\ lastOp' = [op |-> "handleAddTilesBatch", input |-> input]
    /\ Tick
    /\ UNCHANGED <<areas, tileDimensions, activeAreaIndex, moveSnapshot,
                   isMoveColliding, wallEditInfo, wallEditPreview, cutVars,
                   activeTool, snapVars, dialogVars, canvasVars, kernelVars, previousToolRef>>

handleChangeTileColor(tileId, newColor) ==
    /\ Idle /\ ClockRuns
    /\ \E input \in {List([k \in 1..Len(tiles) |->
                              IF tiles[k].id = tileId
                              THEN [tiles[k] EXCEPT !.color = newColor]
                              ELSE tiles[k]])} :
       \E renumberedTiles \in {renumberTilesByColor(input)} :
           /\ tiles' = renumberedTiles
           /\ recordHistory(areas, renumberedTiles)
           /\ lastOp' = [op |-> "handleChangeTileColor", input |-> input]
    /\ Tick
    /\ UNCHANGED <<areas, tileDimensions, activeAreaIndex, moveSnapshot,
                   isMoveColliding, wallEditInfo, wallEditPreview, cutVars,
                   activeTool, snapVars, dialogVars, canvasVars, kernelVars, previousToolRef>>

\* Math.floor(a / b) and Math.ceil(a / b) for b > 0
FloorDiv(a, b) == a \div b
CeilDiv(a, b) == -((-a) \div b)

\* The grid cells <<col, row>> handleFillArea visits, row by row.
FillCells(points, tileW, tileH) ==
    LET startCol == FloorDiv(IMin({points[k].x : k \in 1..Len(points)}), tileW)
        endCol == CeilDiv(IMax({points[k].x : k \in 1..Len(points)}), tileW)
        startRow == FloorDiv(IMin({points[k].y : k \in 1..Len(points)}), tileH)
        endRow == CeilDiv(IMax({points[k].y : k \in 1..Len(points)}), tileH)
        cols == endCol - startCol
    IN  IF cols <= 0 \/ endRow <= startRow THEN <<>>
        ELSE [i \in 1..(cols * (endRow - startRow)) |->
                 <<startCol + ((i - 1) % cols), startRow + ((i - 1) \div cols)>>]

\* A cell gets a tile when no tile sits in it and it overlaps the area.
FillsCell(cell, clipPolygon, tileW, tileH) ==
    /\ ~\E k \in 1..Len(tiles) :
           <<FloorDiv(tiles[k].x, tileW), FloorDiv(tiles[k].y, tileH)>> = cell
    /\ RGtEps(TileIntersectionArea([x |-> cell[1] * tileW, y |-> cell[2] * tileH,
                                    width |-> tileW, height |-> tileH],
                                   clipPolygon), AreaEpsDen)

\* newTilesToCreate of handleFillArea
FillCandidatesIn(cells, clipPolygon, tileW, tileH, color) ==
    SelectIdx([i \in 1..Len(cells) |->
                  [x |-> cells[i][1] * tileW, y |-> cells[i][2] * tileH,
                   width |-> tileW, height |-> tileH, color |-> color]],
              Indices([i \in 1..Len(cells) |->
                          FillsCell(cells[i], clipPolygon, tileW, tileH)]))

FillCandidates(areaToFill, color) ==
    FillCandidatesIn(List(FillCells(areaToFill.points, tileDimensions.width,
                                    tileDimensions.height)),
                     NormalizedPolygon(areaToFill.points),
                     tileDimensions.width, tileDimensions.height, color)

handleFillArea(areaId, activeColor) ==
    /\ Idle /\ ClockRuns
    /\ HasId(areas, areaId)
    /\ FindById(areas, areaId).isClosed
    /\ \E newTilesToCreate \in {FillCandidates(FindById(areas, areaId), activeColor)} :
           /\ Len(newTilesToCreate) > 0
           /\ \E input \in {tiles \o NewTiles(newTilesToCreate, now)} :
              \E finalTiles \in {renumberTilesByColor(input)} :
                  /\ tiles' = finalTiles
                  /\ recordHistory(areas, finalTiles)
                  /\ lastOp' = [op |-> "handleFillArea", input |-> input]
    /\ activeTool' = "POINTER"
    /\ Tick
    /\ UNCHANGED <<areas, tileDimensions, activeAreaIndex, moveSnapshot,
                   isMoveColliding, wallEditInfo, wallEditPreview, cutVars,
                   snapVars, dialogVars, canvasVars, kernelVars, previousToolRef>>

(***************************************************************************)
(* An editing session.  The user has set the tile width to 500             *)
(* (handleTileDimensionsChange, ratio locked: 500 x 500) and starts from   *)
(* the empty plan, or has restored an autosave of a plan whose square area *)
(* was closed before any tile was laid (handleRestoreAutosave).            *)
(***************************************************************************)
SavedPlans ==
    {<<calculateStatsForArea(ClosedArea(1, Square), <<>>,
                             [width |-> 500, height |-> 500])>>}

InitEdit ==
    /\ tiles = <<>>
    /\ tileDimensions = [width |-> 500, height |-> 500]
    /\ activeAreaIndex = None
    /\ \/ areas = <<>> /\ activeTool = "WALL"
       \/ areas \in SavedPlans /\ activeTool = "POINTER"
    /\ history = <<[areas |-> areas, tiles |-> tiles]>>
    /\ historyIndex = 0
    /\ moveSnapshot = Null
    /\ isMoveColliding = FALSE
    /\ wallEditInfo = Null
    /\ wallEditPreview = Null
    /\ now = 1000
    /\ InitCut
    /\ InitSnap
    /\ InitCanvas
    /\ InitKeys
    /\ InitKernel
    /\ lastOp = [op |-> "init"]

\* The user draws along the corners of the square, in their order.
LastCorner(area) ==
    IMax({0} \cup {k \in 1..Len(Square) :
                      \E q \in 1..Len(area.points) :
                          <<area.points[q].x, area.points[q].y>> = Square[k]})
NextClicks ==
    IF FirstOpenIndex(areas) = -1 THEN {Square[1]}
    ELSE {Square[k] : k \in (LastCorner(areas[FirstOpenIndex(areas) + 1]) + 1)..Len(Square)}

\* What the user can point at: a point or a wall of an area, an area, a tile.
PointItems ==
    UNION {{[type |-> "point", id |-> areas[a].points[k].id, areaId |-> areas[a].id] :
               k \in 1..Len(areas[a].points)} : a \in 1..Len(areas)}
WallItems ==
    UNION {{[type |-> "wall", id |-> areas[a].walls[k].id, areaId |-> areas[a].id] :
               k \in 1..Len(areas[a].walls)} : a \in 1..Len(areas)}
AreaItems == {[type |-> "area", id |-> areas[a].id, areaId |-> 0] : a \in 1..Len(areas)}
AreaSelections ==
    {[type |-> "area", id |-> areas[a].id, areaId |-> areas[a].id] : a \in 1..Len(areas)}
TileItems == {[type |-> "tile", id |-> tiles[t].id, areaId |-> 0] : t \in 1..Len(tiles)}

\* Where the mouse is let go, the press being at <<0, 0>>.
MouseMoves == {<<500, 0>>, <<500, 500>>}
\* The lengths typed into the wall dialog.
WallLengths == {500}

Candidate(xy, color) ==
    [x |-> xy[1], y |-> xy[2], width |-> 500, height |-> 500, color |-> color]
\* The batches painted: three tiles in one drag, and single tiles.
TileBatches ==
    { << Candidate(<<500, 0>>, TILE_COLORS[1]), Candidate(<<0, 500>>, TILE_COLORS[1]),
         Candidate(<<0, 0>>, TILE_COLORS[1]) >>,
      << Candidate(<<1000, 0>>, TILE_COLORS[1]) >>,
      << Candidate(<<0, 0>>, TILE_COLORS[2]) >> }

NextEdit ==
    \/ \E point \in NextClicks : handleAddPoint(point)
    \/ closeActivePolygon
    \/ \E item \in PointItems \cup WallItems \cup AreaItems \cup TileItems :
           handleEraseBatch(<<item>>)
    \/ \E selection \in PointItems \cup WallItems \cup AreaSelections \cup TileItems :
           handleSelectForMove(selection, <<0, 0>>)
    \/ \E pos \in MouseMoves : handleMoveSelection(pos, Null)
    \/ handleMoveSelectionEnd
    \/ \E item \in WallItems : OpenWallEditDialog(item.id, item.areaId)
    \/ \E newLength \in WallLengths :
           \E fixed \in {1, 2} :
               /\ HasWallToEdit
               /\ handlePreviewWallEdit(newLength, WallToEditEnds[fixed].id)
    \/ handleConfirmWallEdit
    \/ handleCloseWallEditDialog
    \/ handleUndo
    \/ handleRedo
    \/ \E batch \in TileBatches : handleAddTilesBatch(batch)
    \/ \E item \in TileItems : \E color \in {TILE_COLORS[1], TILE_COLORS[2]} :
           handleChangeTileColor(item.id, color)
    \/ \E item \in AreaItems : handleFillArea(item.id, TILE_COLORS[1])

SpecEdit == InitEdit /\ [][NextEdit]_vars

(***************************************************************************)
(* Properties of the statistics of a closed area.                          *)
(***************************************************************************)
\* The area closeActivePolygon has just closed.
JustClosed == lastOp.op = "closeActivePolygon"
ClosedAreaNow == areas[lastOp.index + 1]

\* The open interval of the t with lo < p + t * d < hi, as <<from, to>>;
\* <<-1, 2>> and <<1, 0>> stand for every t and for no t.
OpenRange(p, d, lo, hi) ==
    IF d = RZero
    THEN (IF RLt(lo, p) /\ RLt(p, hi) THEN <<R(-1), R(2)>> ELSE <<R(1), R(0)>>)
    ELSE IF RLt(RZero, d)
    THEN <<RDiv(RSub(lo, p), d), RDiv(RSub(hi, p), d)>>
    ELSE <<RDiv(RSub(hi, p), d), RDiv(RSub(lo, p), d)>>

\* Segment p-q passes through the open interior of the rectangle.
CrossesInterior(p, q, rect) ==
    LET rx == OpenRange(p.x, RSub(q.x, p.x), R(rect.x), R(rect.x + rect.width))
        ry == OpenRange(p.y, RSub(q.y, p.y), R(rect.y), R(rect.y + rect.height))
        from == RMax(rx[1], ry[1])
        to == RMin(rx[2], ry[2])
    IN  RLt(from, to) /\ RLt(from, R(1)) /\ RLt(RZero, to)

\* The rectangle is a subset of the closed region the simple polygon bounds:
\* its corners are in the region and no edge of the polygon enters it.
RectInsidePolygon(rect, polygon) ==
    /\ \A j \in 1..4 : pointInPolygon(RectPolygon(rect)[j], polygon)
    /\ \A i \in 1..Len(polygon) :
           ~CrossesInterior(polygon[i], polygon[NextIdx(i, Len(polygon))], rect)

\* C2: for a simple polygon area (convex or concave, either winding) and a
\* single tile lying entirely inside it, the statistics report for the tile's
\* colour the count (tile width * tile height) / (nominal width * height).
C2_InsideTileCountsFully ==
    (/\ JustClosed
     /\ Len(tiles) = 1
     /\ RectInsidePolygon(tiles[1], ToPoly(ClosedAreaNow.points)))
    => /\ tiles[1].color \in DOMAIN ClosedAreaNow.calculationResult.tileCountsByColor
       /\ ClosedAreaNow.calculationResult.tileCountsByColor[tiles[1].color] =
              RDiv(R(tiles[1].width * tiles[1].height),
                   R(tileDimensions.width * tileDimensions.height))

\* The area is an axis-aligned rectangle: four corners on two x and two y.
IsRectangleArea(area) ==
    /\ Len(area.points) = 4
    /\ Cardinality({area.points[k].x : k \in 1..4}) = 2
    /\ Cardinality({area.points[k].y : k \in 1..4}) = 2
    /\ Cardinality({<<area.points[k].x, area.points[k].y>> : k \in 1..4}) = 4

\* The area of the intersection of a tile with the rectangle area.
RectangleOverlap(tile, area) ==
    LET ax0 == IMin({area.points[k].x : k \in 1..4})
        ax1 == IMax({area.points[k].x : k \in 1..4})
        ay0 == IMin({area.points[k].y : k \in 1..4})
        ay1 == IMax({area.points[k].y : k \in 1..4})
        w == IMin({tile.x + tile.width, ax1}) - IMax({tile.x, ax0})
        h == IMin({tile.y + tile.height, ay1}) - IMax({tile.y, ay0})
    IN  IF w > 0 /\ h > 0 THEN w * h ELSE 0

RECURSIVE ISumTo(_, _)
ISumTo(f, n) == IF n = 0 THEN 0 ELSE ISumTo(f, n - 1) + f[n]

\* The sum of the overlaps of the tiles that Keep (a boolean per tile).
OverlapSum(tileList, keep, area) ==
    ISumTo([i \in 1..Len(tileList) |->
               IF keep[i] THEN RectangleOverlap(tileList[i], area) ELSE 0],
           Len(tileList))

SquareScenario(xy) ==
    /\ JustClosed
    /\ ToPoly(ClosedAreaNow.points) = ToPoly(ClosedArea(1, Square).points)
    /\ tileDimensions = [width |-> 500, height |-> 500]
    /\ Len(tiles) = 1
    /\ <<tiles[1].x, tiles[1].y>> = xy

JustCut == lastOp.op = "handleCut" /\ preCutState # Null
PiecesNow ==
    IF wasteDeletionPrompt # Null THEN wasteDeletionPrompt.allPieces ELSE cutPieces
PiecesNowOf(tile) ==
    SelectIdx(PiecesNow, Indices([k \in 1..Len(PiecesNow) |->
                             PiecesNow[k].originalTile = tile]))
InPiecesNowOf(tile) ==
    SelectIdx(PiecesNow, Indices([k \in 1..Len(PiecesNow) |->
                             PiecesNow[k].originalTile = tile /\ ~PiecesNow[k].isOffcut]))
OffcutsNowOf(tile) ==
    SelectIdx(PiecesNow, Indices([k \in 1..Len(PiecesNow) |->
                             PiecesNow[k].originalTile = tile /\ PiecesNow[k].isOffcut]))

NominalArea(tile) == R(tile.width * tile.height)

\* The sum of the areas of the in-pieces of a tile.
InPieceAreaSum(tile) ==
    RSum([k \in 1..Len(InPiecesNowOf(tile)) |->
             polygonAreaWithHoles(InPiecesNowOf(tile)[k].polygons)])

\* wastePercentage / 100 * nominal area of the offcuts of a tile.
WasteAreaSum(tile) ==
    RSum([k \in 1..Len(OffcutsNowOf(tile)) |->
             RMul(RDiv(OffcutsNowOf(tile)[k].wastePercentage, R(100)),
                  NominalArea(tile))])

\* C4: the cut partitions each tile: the areas of its in-pieces sum to at
\* most the tile's nominal area, and together with the offcut's waste area
\* (0 when there is no offcut) to exactly the nominal area, whatever the
\* closed visible areas are, overlapping ones included.
C4_CutPartitionsTile ==
    JustCut =>
        \A t \in 1..Len(preCutState.tiles) :
            /\ RLe(InPieceAreaSum(preCutState.tiles[t]), NominalArea(preCutState.tiles[t]))
            /\ RAdd(InPieceAreaSum(preCutState.tiles[t]),
                    WasteAreaSum(preCutState.tiles[t]))
                   = NominalArea(preCutState.tiles[t])

\* The clip candidates of a tile against the closed visible areas and the
\* area inside them, as the claims name them.
CandidatesOf(tile) ==
    RetainedCandidates(
        List([k \in 1..Len(CorrectedAreaPolygons(preCutState.areas)) |->
                 clipPolygonByPolygon(RectPolygon(tile),
                                      CorrectedAreaPolygons(preCutState.areas)[k])]))
InsideArea(tile) ==
    RSum([k \in 1..Len(CandidatesOf(tile)) |-> polygonArea(CandidatesOf(tile)[k])])

PartlyCovered(tile) ==
    /\ RGtEps(InsideArea(tile), AreaEpsDen)
    /\ RGtEps(RSub(NominalArea(tile), InsideArea(tile)), AreaEpsDen)

\* poly moved by (-tile.x, -tile.y)
MovedToTile(poly, tile) ==
    [k \in 1..Len(poly) |->
        [x |-> RSub(poly[k].x, <<tile.x, 1>>), y |-> RSub(poly[k].y, <<tile.y, 1>>)]]

TileRectangle(tile) ==
    << [x |-> <<0, 1>>, y |-> <<0, 1>>],
       [x |-> <<tile.width, 1>>, y |-> <<0, 1>>],
       [x |-> <<tile.width, 1>>, y |-> <<tile.height, 1>>],
       [x |-> <<0, 1>>, y |-> <<tile.height, 1>>] >>

PartlyCoveredPieces(tile) ==
    /\ Len(InPiecesNowOf(tile)) = Len(CandidatesOf(tile))
    /\ \A i \in 1..Len(CandidatesOf(tile)) :
           /\ ~InPiecesNowOf(tile)[i].isOffcut
           /\ InPiecesNowOf(tile)[i].wastePercentage = RZero
           /\ InPiecesNowOf(tile)[i].polygons =
                  <<MovedToTile(CandidatesOf(tile)[i], tile)>>
    /\ Len(OffcutsNowOf(tile)) = 1
    /\ Len(PiecesNowOf(tile)) = Len(CandidatesOf(tile)) + 1
    /\ OffcutsNowOf(tile)[1].polygons =
           <<TileRectangle(tile)>> \o
           [i \in 1..Len(CandidatesOf(tile)) |-> InPiecesNowOf(tile)[i].polygons[1]]
    /\ OffcutsNowOf(tile)[1].wastePercentage =
           RMul(RDiv(RSub(NominalArea(tile), InsideArea(tile)), NominalArea(tile)),
                R(100))

CutScenario(xy) ==
    /\ JustCut
    /\ CorrectedAreaPolygons(preCutState.areas) = <<ToPoly(ClosedArea(1, Square).points)>>
    /\ Len(preCutState.tiles) = 1
    /\ <<preCutState.tiles[1].x, preCutState.tiles[1].y>> = xy

\* C5: for a tile covered in part (inside area > 1e-6 and nominal area minus
\* inside area > 1e-6) handleCut makes one in-piece per retained candidate,
\* no offcut, waste 0, the polygon moved by (-tile.x, -tile.y), and exactly
\* one offcut: outer boundary the tile rectangle, holes the in-piece
\* polygons, wastePercentage (nominal - inside) / nominal * 100.  Square
\* (0,0)-(1000,1000) and tile (800,800) 500x500: one in-piece of area 40000
\* and one offcut with wastePercentage 84.
C5_PartlyCoveredTile ==
    /\ JustCut =>
           \A t \in 1..Len(preCutState.tiles) :
               PartlyCovered(preCutState.tiles[t])
                   => PartlyCoveredPieces(preCutState.tiles[t])
    /\ CutScenario(<<800, 800>>) =>
           /\ Len(PiecesNow) = 2
           /\ ~PiecesNow[1].isOffcut
           /\ polygonArea(PiecesNow[1].polygons[1]) = R(40000)
           /\ PiecesNow[2].isOffcut
           /\ PiecesNow[2].wastePercentage = R(84)

\* The plan is cut with the tile at (800,800) over the corner of the square.
C5_Witness ==
    /\ CutScenario(<<800, 800>>)
    /\ PartlyCovered(preCutState.tiles[1])
    /\ Len(PiecesNow) = 2

\* C6: for a tile whose clipped area against all closed visible areas is
\* below 1e-6 handleCut makes exactly one piece: an offcut whose only polygon
\* is the rectangle (0,0),(width,0),(width,height),(0,height), with an empty
\* cutSegments list and wastePercentage 100.
C6_OutsideTile ==
    JustCut =>
        \A t \in 1..Len(preCutState.tiles) :
            RLtEps(InsideArea(preCutState.tiles[t]), AreaEpsDen) =>
                /\ Len(PiecesNowOf(preCutState.tiles[t])) = 1
                /\ PiecesNowOf(preCutState.tiles[t])[1].isOffcut
                /\ PiecesNowOf(preCutState.tiles[t])[1].polygons =
                       <<TileRectangle(preCutState.tiles[t])>>
                /\ PiecesNowOf(preCutState.tiles[t])[1].cutSegments = <<>>
                /\ PiecesNowOf(preCutState.tiles[t])[1].wastePercentage = R(100)

\* The plan is cut with a tile that lies outside every area.
C6_Witness ==
    /\ JustCut
    /\ \E t \in 1..Len(preCutState.tiles) :
           /\ InsideArea(preCutState.tiles[t]) = RZero
           /\ Len(PiecesNowOf(preCutState.tiles[t])) = 1
           /\ PiecesNowOf(preCutState.tiles[t])[1].wastePercentage = R(100)

(***************************************************************************)
(* Properties of the editing session.                                      *)
(***************************************************************************)
\* The handlers that complete a structural edit.
CompletedEdits ==
    {"closeActivePolygon", "handleEraseBatch", "handleMoveSelectionEnd",
     "handleConfirmWallEdit", "handleAddTilesBatch", "handleChangeTileColor",
     "handleFillArea"}

\* The cached statistics of every closed area are those of the current plan.
StatsAreCurrent ==
    \A k \in 1..Len(areas) :
        areas[k].isClosed =>
            areas[k].calculationResult =
                calculateStatsForArea(areas[k], tiles, tileDimensions).calculationResult

\* C1: after every completed structural edit (tiles added, an area filled,
\* items erased, a tile, point, wall or area moved, a tile recoloured, a wall
\* length edited, an area closed) the cached calculationResult of every
\* closed area equals what calculateStatsForArea computes from the current
\* areas, tiles and tile dimensions.
C1_StatsFollowEdits == lastOp.op \in CompletedEdits => StatsAreCurrent

\* C8: an area that is not closed or has fewer than 3 points has no
\* calculationResult, and after a point or a wall of an area was erased that
\* area is open and has no calculationResult.
C8_OpenAreaHasNoStats ==
    /\ \A k \in 1..Len(areas) :
           (~areas[k].isClosed \/ Len(areas[k].points) < 3) =>
               areas[k].calculationResult = NullResult
    /\ (lastOp.op = "handleEraseBatch" /\ lastOp.batch[1].type \in {"point", "wall"}) =>
           \A k \in 1..Len(areas) :
               areas[k].id = lastOp.batch[1].areaId =>
                   ~areas[k].isClosed /\ areas[k].calculationResult = NullResult

\* A point or a wall of a closed area with statistics was erased.
C8_Witness ==
    /\ lastOp.op = "handleEraseBatch"
    /\ lastOp.batch[1].type \in {"point", "wall"}
    /\ historyIndex >= 1
    /\ \E k \in 1..Len(history[historyIndex].areas) :
           /\ history[historyIndex].areas[k].id = lastOp.batch[1].areaId
           /\ history[historyIndex].areas[k].isClosed
           /\ history[historyIndex].areas[k].calculationResult # NullResult
    /\ \E k \in 1..Len(areas) :
           areas[k].id = lastOp.batch[1].areaId /\ ~areas[k].isClosed

\* The handlers that end with renumberTilesByColor(input).
RenumberingEdits == {"handleAddTilesBatch", "handleChangeTileColor", "handleFillArea"}
JustRenumbered == lastOp.op \in RenumberingEdits

\* The numbered tiles of one colour in the list.
NumberedOfColor(list, color) ==
    {k \in 1..Len(list) : list[k].color = color /\ list[k].number # NullNumber}

\* out is the list in renumbered: same tiles in the same order, the numbered
\* tiles of each colour carrying the ordinals 1..N in (y, x) order.
IsRenumberingOf(out, in) ==
    /\ Len(out) = Len(in)
    /\ \A k \in 1..Len(in) :
           /\ out[k].id = in[k].id
           /\ out[k].x = in[k].x /\ out[k].y = in[k].y
           /\ out[k].width = in[k].width /\ out[k].height = in[k].height
           /\ out[k].color = in[k].color
           /\ in[k].number = NullNumber => out[k].number = NullNumber
    /\ \A c \in 1..Len(TILE_COLORS) :
           /\ \A k \in NumberedOfColor(in, TILE_COLORS[c]) :
                  /\ Len(out[k].number) = 2
                  /\ out[k].number[1] = c - 1
           /\ {out[k].number[2] : k \in NumberedOfColor(in, TILE_COLORS[c])}
                  = 1..Cardinality(NumberedOfColor(in, TILE_COLORS[c]))
           /\ \A j, k \in NumberedOfColor(in, TILE_COLORS[c]) :
                  /\ j # k => out[j].number[2] # out[k].number[2]
                  /\ TileBefore(in[j], in[k]) => out[j].number[2] < out[k].number[2]

\* C9: renumberTilesByColor gives the numbered tiles of each colour the
\* ordinals 1..N, each once, in the order of y and then x, written as
\* <colour index>-<ordinal>, leaves tiles without number unnumbered, and
\* returns the tiles in their list order with id, position, size and colour
\* unchanged.
C9_RenumberByColor == JustRenumbered => IsRenumberingOf(tiles, lastOp.input)

\* C10: renumbering is idempotent: renumbering the renumbered list gives
\* the renumbered list.
C10_RenumberIdempotent ==
    JustRenumbered =>
        renumberTilesByColor(renumberTilesByColor(lastOp.input))
            = renumberTilesByColor(lastOp.input)

\* The handlers that complete a tile operation in the plan view.
TileOperations ==
    {"handleAddTilesBatch", "handleFillArea", "handleEraseBatch",
     "handleChangeTileColor", "handleMoveSelectionEnd", "handleUndo", "handleRedo"}

\* C11: after every completed tile operation the stored tile list is a fixed
\* point of renumberTilesByColor: the numbered tiles of every colour carry
\* the ordinals 1..N, without gaps or duplicates, in the (y, x) order of
\* their current positions.
C11_TilesStayRenumbered ==
    lastOp.op \in TileOperations =>
        /\ renumberTilesByColor(tiles) = tiles
        /\ IsRenumberingOf(tiles, tiles)

(***************************************************************************)
(* The snap resolver of the canvas (src/components/Canvas.tsx).  A cursor  *)
(* position is a point, or, where the resolver works with the polar        *)
(* coordinates of the cursor about the last point, those coordinates:      *)
(* [about, dist, angle] stands for about + dist * (cos angle, sin angle),  *)
(* the angle in degrees.  Distances are compared by their squares.         *)
(***************************************************************************)
SNAP_DISTANCE == 20
TRACKING_TOLERANCE == 15

\* view.zoom as useState sets it; wheel and zoom buttons are left out.
ViewZoom == <<1, 2>>

snapRadius == RDiv(R(SNAP_DISTANCE), ViewZoom)
snapRadiusSq == RMul(snapRadius, snapRadius)

visibleAreas ==
    SelectIdx(areas, Indices([k \in 1..Len(areas) |-> areas[k].isVisible]))

\* visibleAreas.flatMap(a => a.points)
AllPoints(shown) == Flatten([k \in 1..Len(shown) |-> ToPoly(shown[k].points)])

Midpoint(p1, p2) ==
    Pt(RDiv(R(p1.x + p2.x), R(2)), RDiv(R(p1.y + p2.y), R(2)))

\* The walls of an area whose two end points are found, in wall order.
FoundWalls(area) ==
    SelectIdx(area.walls,
              Indices([w \in 1..Len(area.walls) |->
                          /\ HasId(area.points, area.walls[w].p1Id)
                          /\ HasId(area.points, area.walls[w].p2Id)]))

WallMidpoints(area) ==
    List([w \in 1..Len(FoundWalls(area)) |->
             Midpoint(FindById(area.points, FoundWalls(area)[w].p1Id),
                      FindById(area.points, FoundWalls(area)[w].p2Id))])

AllMidpoints(shown) == Flatten([k \in 1..Len(shown) |-> WallMidpoints(shown[k])])

\* bestSnap before any candidate: dist None is Infinity.
NoSnap(pos) == [pos |-> pos, dist |-> None, type |-> "none"]

\* d <= bestSnap.dist: a candidate replaces bestSnap at equal distance too.
CloserOrLevel(dSq, bestSnap) == bestSnap.dist = None \/ RLe(dSq, bestSnap.dist[1])

\* d < bestSnap.dist, on squared distances
Closer(dSq, bestSnap) == bestSnap.dist = None \/ RLt(dSq, bestSnap.dist[1])

\* One of the two loops over candidates: a candidate within the radius
\* replaces bestSnap when it is strictly nearer.
RECURSIVE BestSnapFrom(_, _, _, _, _)
BestSnapFrom(candidates, type, i, pos, bestSnap) ==
    IF i > Len(candidates) THEN bestSnap
    ELSE BestSnapFrom(candidates, type, i + 1, pos,
             IF /\ RLt(distanceSq(pos, candidates[i]), snapRadiusSq)
                /\ Closer(distanceSq(pos, candidates[i]), bestSnap)
             THEN [pos |-> candidates[i],
                   dist |-> Some(distanceSq(pos, candidates[i])),
                   type |-> type]
             ELSE bestSnap)

\* The osnap block: all vertices, then all wall midpoints.
ObjectSnap(pos, bestSnap) ==
    BestSnapFrom(AllMidpoints(visibleAreas), "midpoint", 1, pos,
                 BestSnapFrom(AllPoints(visibleAreas), "vertex", 1, pos, bestSnap))

\* Math.floor of a rational.
MathFloor(q) == FloorDiv(q[1], q[2])

\* Math.round of a rational: the floor of q + 1/2.
MathRound(q) == FloorDiv(2 * q[1] + q[2], 2 * q[2])

\* Math.round(v / step) * step
RoundToStep(v, step) == R(MathRound(RDiv(v, R(step))) * step)

GridPos(pos) ==
    Pt(RoundToStep(pos.x, tileDimensions.width),
       RoundToStep(pos.y, tileDimensions.height))

getFirstPointSnap(pos) ==
    LET bestSnap == IF snapModes.osnap THEN ObjectSnap(pos, NoSnap(pos))
                    ELSE NoSnap(pos)
    IN  IF bestSnap.type \in {"vertex", "midpoint"}
        THEN [pos |-> bestSnap.pos, type |-> bestSnap.type]
        ELSE IF snapModes.grid THEN [pos |-> GridPos(pos), type |-> "grid"]
        ELSE [pos |-> pos, type |-> "none"]

\* Math.atan2(dy, dx) in degrees, for the eight compass directions (and 0
\* for the zero vector): the plans drawn here have no other wall.
atan2Deg(dy, dx) ==
    CASE dy = 0 /\ dx >= 0 -> 0
      [] dy = 0 /\ dx < 0 -> 180
      [] dx = 0 /\ dy > 0 -> 90
      [] dx = 0 /\ dy < 0 -> -90
      [] dx > 0 /\ dy = dx -> 45
      [] dx > 0 /\ dy = -dx -> -45
      [] dx < 0 /\ dy = -dx -> 135
      [] dx < 0 /\ dy = dx -> -135

\* The angle left as it is.
NoWrap(deg) == deg

\* The two while loops: the angle brought into (-180, 180].
RECURSIVE WrapAngle(_)
WrapAngle(deg) ==
    IF deg <= -180 THEN WrapAngle(deg + 360)
    ELSE IF deg > 180 THEN WrapAngle(deg - 360)
    ELSE deg

\* points and lastPoint of getSnappedPos
ActivePoints == IF activeAreaIndex = None THEN <<>> ELSE activeArea.points
HasLastPoint == Len(ActivePoints) > 0
LastPoint == ActivePoints[Len(ActivePoints)]

\* baseAngleRad, in degrees
BaseAngle ==
    IF Len(ActivePoints) >= 2
    THEN atan2Deg(LastPoint.y - ActivePoints[Len(ActivePoints) - 1].y,
                  LastPoint.x - ActivePoints[Len(ActivePoints) - 1].x)
    ELSE 0

\* The condition of the polar branch.
PolarBranch ==
    /\ activeTool = "WALL"
    /\ HasLastPoint
    /\ (activeAngleSnap # None \/ activeLengthSnap # None)

\* finalAngleRad, in degrees, for a cursor at angle deg about the last point
FinalAngle(deg) ==
    IF activeAngleSnap # None
    THEN BaseAngle
         + MathRound(RDiv(R(WrapAngle(deg - BaseAngle)), R(activeAngleSnap[1])))
           * activeAngleSnap[1]
    ELSE deg

\* finalDist for a cursor at distance dist from the last point
FinalDist(dist) ==
    IF activeLengthSnap # None /\ activeLengthSnap[1] > 0
    THEN RoundToStep(R(dist), activeLengthSnap[1])
    ELSE R(dist)

PolarSnap(pos) ==
    IF FinalDist(pos.dist) = RZero
    THEN [pos |-> IPt(LastPoint.x, LastPoint.y), type |-> "vertex"]
    ELSE [pos |-> [about |-> IPt(LastPoint.x, LastPoint.y),
                   dist |-> FinalDist(pos.dist),
                   angle |-> FinalAngle(pos.angle)],
          type |-> "extension"]

\* The foot of the perpendicular from pos on the line p1-p2.
Projection(pos, p1, p2) ==
    LET dx == RSub(p2.x, p1.x)
        dy == RSub(p2.y, p1.y)
        t == RDiv(RAdd(RMul(RSub(pos.x, p1.x), dx), RMul(RSub(pos.y, p1.y), dy)),
                  RAdd(RMul(dx, dx), RMul(dy, dy)))
    IN  Pt(RAdd(p1.x, RMul(t, dx)), RAdd(p1.y, RMul(t, dy)))

\* The loop over trackingGuides.lines: <<minSnapDist squared, bestLineSnapPos>>.
RECURSIVE BestLineSnapFrom(_, _, _, _)
BestLineSnapFrom(lines, i, pos, best) ==
    IF i > Len(lines) THEN best
    ELSE IF lines[i].p1 = lines[i].p2
    THEN BestLineSnapFrom(lines, i + 1, pos, best)
    ELSE BestLineSnapFrom(lines, i + 1, pos,
             IF RLt(distanceSq(pos, Projection(pos, lines[i].p1, lines[i].p2)),
                    best[1])
             THEN <<distanceSq(pos, Projection(pos, lines[i].p1, lines[i].p2)),
                    Projection(pos, lines[i].p1, lines[i].p2)>>
             ELSE best)

\* bestSnap after the guide intersection was tried.
IntersectionSnap(pos) ==
    IF /\ snapModes.otrack
       /\ trackingGuides.intersection # Null
       /\ RLt(distanceSq(pos, trackingGuides.intersection), snapRadiusSq)
    THEN [pos |-> trackingGuides.intersection,
          dist |-> Some(distanceSq(pos, trackingGuides.intersection)),
          type |-> "intersection"]
    ELSE NoSnap(pos)

\* The ordinary branch of getSnappedPos.
OrdinarySnap(pos) ==
    LET bestSnap == IF snapModes.osnap THEN ObjectSnap(pos, IntersectionSnap(pos))
                    ELSE IntersectionSnap(pos)
        lineSnap == IF snapModes.otrack
                    THEN BestLineSnapFrom(trackingGuides.lines, 1, pos,
                                          <<snapRadiusSq, Null>>)
                    ELSE <<snapRadiusSq, Null>>
    IN  IF bestSnap.type \in {"intersection", "vertex", "midpoint"}
        THEN [pos |-> bestSnap.pos, type |-> bestSnap.type]
        ELSE IF lineSnap[2] # Null THEN [pos |-> lineSnap[2], type |-> "extension"]
        ELSE IF snapModes.grid THEN [pos |-> GridPos(pos), type |-> "grid"]
        ELSE [pos |-> pos, type |-> "none"]

getSnappedPos(pos) == IF PolarBranch THEN PolarSnap(pos) ELSE OrdinarySnap(pos)

\* The loop over the points for one axis ("y": horizontal guide, "x":
\* vertical guide): <<minimal distance, guide or Null>>.
AxisLine(axis, p) ==
    IF axis = "y"
    THEN [type |-> "horizontal", p1 |-> Pt(R(0), p.y), p2 |-> Pt(R(1), p.y)]
    ELSE [type |-> "vertical", p1 |-> Pt(p.x, R(0)), p2 |-> Pt(p.x, R(1))]

RECURSIVE BestAxisLine(_, _, _, _, _)
BestAxisLine(allPoints, axis, i, currentPos, best) ==
    IF i > Len(allPoints) THEN best
    ELSE BestAxisLine(allPoints, axis, i + 1, currentPos,
             IF RLt(RAbs(RSub(currentPos[axis], allPoints[i][axis])), best[1])
             THEN <<RAbs(RSub(currentPos[axis], allPoints[i][axis])),
                    AxisLine(axis, allPoints[i])>>
             ELSE best)

\* The walls with their end points, degenerate and dangling ones left out.
WallSegments(area) ==
    SelectIdx([w \in 1..Len(FoundWalls(area)) |->
                  [p1 |-> ToPoly(<<FindById(area.points, FoundWalls(area)[w].p1Id)>>)[1],
                   p2 |-> ToPoly(<<FindById(area.points, FoundWalls(area)[w].p2Id)>>)[1]]],
              Indices([w \in 1..Len(FoundWalls(area)) |->
                  LET p1 == FindById(area.points, FoundWalls(area)[w].p1Id)
                      p2 == FindById(area.points, FoundWalls(area)[w].p2Id)
                  IN  ~(p1.x = p2.x /\ p1.y = p2.y)]))

AllWallSegments(shown) == Flatten([k \in 1..Len(shown) |-> WallSegments(shown[k])])

\* distance(p1, p2) of a wall: the walls of the plans drawn here are parallel
\* to an axis or have a whole length (sides 300 and 400, length 500).
AxisDistance(p1, p2) ==
    CASE p1.y = p2.y -> RAbs(RSub(p2.x, p1.x))
      [] p1.x = p2.x -> RAbs(RSub(p2.y, p1.y))
      [] OTHER -> R(CHOOSE r \in 1..2000 : R(r * r) = distanceSq(p1, p2))

DistToInfiniteLine(currentPos, p1, p2) ==
    RDiv(RAbs(RSub(RMul(RSub(p2.x, p1.x), RSub(p1.y, currentPos.y)),
                   RMul(RSub(p1.x, currentPos.x), RSub(p2.y, p1.y)))),
         AxisDistance(p1, p2))

\* The loop over the walls: <<minimal distance, guide or Null>>.
RECURSIVE BestExtLine(_, _, _, _)
BestExtLine(segments, i, currentPos, best) ==
    IF i > Len(segments) THEN best
    ELSE BestExtLine(segments, i + 1, currentPos,
             IF RLt(DistToInfiniteLine(currentPos, segments[i].p1, segments[i].p2),
                    best[1])
             THEN <<DistToInfiniteLine(currentPos, segments[i].p1, segments[i].p2),
                    [type |-> "extension", p1 |-> segments[i].p1,
                     p2 |-> segments[i].p2]>>
             ELSE best)

trackingTolerance == RDiv(R(TRACKING_TOLERANCE), ViewZoom)

\* candidates.filter(line => line !== null).slice(0, 2)
ActiveLines(currentPos) ==
    LET candidates ==
            << BestAxisLine(AllPoints(visibleAreas), "y", 1, currentPos,
                            <<trackingTolerance, Null>>)[2],
               BestAxisLine(AllPoints(visibleAreas), "x", 1, currentPos,
                            <<trackingTolerance, Null>>)[2],
               BestExtLine(AllWallSegments(visibleAreas), 1, currentPos,
                           <<trackingTolerance, Null>>)[2] >>
        activeLines == SelectIdx(candidates,
                                 Indices([k \in 1..3 |-> candidates[k] # Null]))
    IN  SubSeq(activeLines, 1, IF Len(activeLines) < 2 THEN Len(activeLines) ELSE 2)

NoGuides == [lines |-> <<>>, intersection |-> Null]

\* newGuides of handleMouseMove
NewGuides(currentPos) ==
    IF /\ snapModes.otrack
       /\ activeTool = "WALL"
       /\ HasLastPoint
    THEN LET lines == ActiveLines(currentPos)
         IN  [lines |-> lines,
              intersection |->
                  IF Len(lines) = 2
                  THEN LET hit == getLineIntersection(lines[1].p1, lines[1].p2,
                                                      lines[2].p1, lines[2].p2)
                       IN  IF hit = NoPoint THEN Null ELSE hit
                  ELSE Null]
    ELSE NoGuides

\* The result of the resolver call of handleMouseMove, Null when the tool
\* takes no snap.
MoveSnap(currentPos) ==
    IF activeTool \in {"WALL", "TILE", "PLACE_FIELD"}
    THEN (IF activeTool = "PLACE_FIELD" \/ activeAreaIndex = None
             \/ activeArea.isClosed
          THEN getFirstPointSnap(currentPos)
          ELSE getSnappedPos(currentPos))
    ELSE Null

\* snapPos of handleMouseMove
MoveSnapPos(currentPos) ==
    IF MoveSnap(currentPos) = Null THEN Null ELSE MoveSnap(currentPos).pos

\* onSnapIndicatorChange({pos: snapPos, type: snapType}), snapType being
\* getFirstPointSnap(currentPos).type
SnapIndicatorOf(currentPos, snapResult) ==
    IF snapResult = Null THEN Null
    ELSE [pos |-> snapResult.pos, type |-> getFirstPointSnap(currentPos).type]

\* onMouseMove of the canvas while nothing is dragged: the position is
\* resolved with the guides of the state and published with its type, then
\* the guides are set anew.  lastOp keeps the type the resolver returned.
handleMouseMove(currentPos) ==
    /\ moveSnapshot = Null
    /\ \E snapResult \in {MoveSnap(currentPos)} :
           /\ snapPos' = IF snapResult = Null THEN Null ELSE snapResult.pos
           /\ snapIndicator' = SnapIndicatorOf(currentPos, snapResult)
           /\ lastOp' = [op |-> "handleMouseMove", currentPos |-> currentPos,
                         resolved |-> IF snapResult = Null THEN "none"
                                      ELSE snapResult.type]
    /\ trackingGuides' = NewGuides(currentPos)
    /\ UNCHANGED <<docVars, cutVars, activeTool, snapVars, dialogVars, kernelVars,
                   previousToolRef>>

(***************************************************************************)
(* The canvas while a plan is drawn with the WALL tool: the pointer moves  *)
(* over the plan and the snap modes are toggled.  The plan, and the polar  *)
(* values the canvas is given as props, are drawn at the start.            *)
(***************************************************************************)
\* A room with a niche 40 wide, drawn as far as the niche.
Niche ==
    << <<0, 0>>, <<1000, 0>>, <<1000, 1000>>, <<40, 1000>>, <<40, 960>> >>

DrawnPlans ==
    {<<>>,
     <<OpenArea(1, <<<<0, 0>>>>)>>,
     <<OpenArea(1, <<<<0, 0>>, <<0, 1000>>>>)>>,
     <<OpenArea(1, <<<<0, 0>>, <<300, 400>>, <<300, 1000>>>>)>>,
     <<OpenArea(1, Niche)>>}

PolarAngleProps == {None, Some(15), Some(7)}
PolarLengthProps == {None, Some(100)}

InitCanvasSession ==
    /\ areas \in DrawnPlans
    /\ tiles = <<>>
    /\ tileDimensions = InitialTileDimensions
    /\ activeAreaIndex = IF areas = <<>> THEN None ELSE Some(0)
    /\ history = <<[areas |-> areas, tiles |-> tiles]>>
    /\ historyIndex = 0
    /\ moveSnapshot = Null
    /\ isMoveColliding = FALSE
    /\ wallEditInfo = Null
    /\ wallEditPreview = Null
    /\ now = 1000
    /\ InitCut
    /\ activeAngleSnap \in PolarAngleProps
    /\ activeLengthSnap \in PolarLengthProps
    /\ snapModes = SettledModes(InitialSnapModes, activeAngleSnap, activeLengthSnap)
    /\ isSnapSettingsOpen = FALSE
    /\ customAngle = <<>>
    /\ customLength = <<>>
    /\ InitCanvas
    /\ InitKeys
    /\ InitKernel
    /\ activeTool = "WALL"
    /\ lastOp = [op |-> "init"]

\* Where the pointer is moved to.
CursorPositions ==
    {IPt(460, 10), IPt(700, 230), IPt(10, 1010), IPt(20, 1000), IPt(30, 1000),
     IPt(30, 990), IPt(300, 10), IPt(500, 10), IPt(20, 25)}

\* The same for the polar branch: distance and angle about the last point.
PolarDistances == {40, 240, 260}
PolarAngles == {10, 40, 100, -100, 180, -170}
PolarCursorPositions ==
    {[about |-> IPt(LastPoint.x, LastPoint.y), dist |-> d, angle |-> a] :
        d \in PolarDistances, a \in PolarAngles}

Cursors == IF PolarBranch THEN PolarCursorPositions ELSE CursorPositions

NextCanvas ==
    \/ \E currentPos \in Cursors : handleMouseMove(currentPos)
    \/ \E mode \in {"grid", "osnap", "otrack"} : handleToggleSnapMode(mode)

SpecCanvas == InitCanvasSession /\ [][NextCanvas]_vars

(***************************************************************************)
(* Properties of the snap resolver.                                        *)
(***************************************************************************)
\* The guide intersection of the state lies within the snap radius of pos.
IntersectionInReach(pos) ==
    /\ trackingGuides.intersection # Null
    /\ RLt(distanceSq(pos, trackingGuides.intersection), snapRadiusSq)

\* C12: in ordinary resolution with object tracking enabled, whenever the
\* intersection of the two tracking guides lies within SNAP_DISTANCE / zoom
\* of the cursor, getSnappedPos returns that intersection with type
\* 'intersection', also when object snap is enabled and a vertex or a wall
\* midpoint lies within the same radius.
C12_IntersectionFirst ==
    (~PolarBranch /\ snapModes.otrack) =>
        \A pos \in CursorPositions :
            IntersectionInReach(pos) =>
                getSnappedPos(pos) = [pos |-> trackingGuides.intersection,
                                      type |-> "intersection"]

\* The candidates within the snap radius of pos that no candidate is nearer
\* to pos than, as indices.
NearestInReach(candidates, pos) ==
    {k \in 1..Len(candidates) :
        /\ RLt(distanceSq(pos, candidates[k]), snapRadiusSq)
        /\ \A j \in 1..Len(candidates) :
               ~RLt(distanceSq(pos, candidates[j]), distanceSq(pos, candidates[k]))}

\* The nearest vertex and the nearest wall midpoint are within the radius
\* and equally far from pos.
VertexMidpointTie(pos) ==
    \E v \in NearestInReach(AllPoints(visibleAreas), pos) :
    \E m \in NearestInReach(AllMidpoints(visibleAreas), pos) :
        distanceSq(pos, AllPoints(visibleAreas)[v])
            = distanceSq(pos, AllMidpoints(visibleAreas)[m])

\* result is a nearest vertex, with type 'vertex'.
IsNearestVertex(result, pos) ==
    /\ result.type = "vertex"
    /\ \E v \in NearestInReach(AllPoints(visibleAreas), pos) :
           result.pos = AllPoints(visibleAreas)[v]

\* The guide intersection is a candidate at most as far from pos as the
\* nearest vertex.
IntersectionAsNear(pos) ==
    /\ snapModes.otrack
    /\ IntersectionInReach(pos)
    /\ \E v \in NearestInReach(AllPoints(visibleAreas), pos) :
           RLe(distanceSq(pos, trackingGuides.intersection),
               distanceSq(pos, AllPoints(visibleAreas)[v]))

NoObjectInReach(pos) ==
    snapModes.osnap =>
        /\ NearestInReach(AllPoints(visibleAreas), pos) = {}
        /\ NearestInReach(AllMidpoints(visibleAreas), pos) = {}

\* Neither the guide intersection nor the projection of pos on a guide is
\* within the snap radius of pos.
NoGuideInReach(pos) ==
    snapModes.otrack =>
        /\ ~IntersectionInReach(pos)
        /\ \A k \in 1..Len(trackingGuides.lines) :
               ~RLt(distanceSq(pos, Projection(pos, trackingGuides.lines[k].p1,
                                               trackingGuides.lines[k].p2)),
                    snapRadiusSq)

\* r is the multiple of step nearest to v, the upper one of two.
IsNearestMultiple(r, v, step) ==
    /\ r[2] = 1
    /\ r[1] % step = 0
    /\ RLe(R(2 * r[1] - step), RMul(R(2), v))
    /\ RLt(RMul(R(2), v), R(2 * r[1] + step))

IsGridSnap(result, pos) ==
    /\ result.type = "grid"
    /\ IsNearestMultiple(result.pos.x, pos.x, tileDimensions.width)
    /\ IsNearestMultiple(result.pos.y, pos.y, tileDimensions.height)

\* C14: with grid snap enabled and no guide intersection, vertex, midpoint
\* or guide projection within the radius, the resolver returns type 'grid'
\* and the position with each coordinate rounded on its own to the nearest
\* multiple of the tile width and of the tile height; with tiles of 465x465
\* the cursor (460,10) resolves to (465,0).
C14_GridRounding ==
    snapModes.grid =>
        \A pos \in CursorPositions :
            /\ NoObjectInReach(pos) => IsGridSnap(getFirstPointSnap(pos), pos)
            /\ (~PolarBranch /\ NoObjectInReach(pos) /\ NoGuideInReach(pos)) =>
                   IsGridSnap(getSnappedPos(pos), pos)
            /\ (NoObjectInReach(pos) /\ pos = IPt(460, 10)
                    /\ tileDimensions = [width |-> 465, height |-> 465]) =>
                   getFirstPointSnap(pos) = [pos |-> IPt(465, 0), type |-> "grid"]

\* While a wall chain is drawn the pointer was moved to (460,10), away from
\* every vertex, midpoint and guide, and was resolved to the grid.
C14_Witness ==
    /\ lastOp.op = "handleMouseMove"
    /\ lastOp.currentPos = IPt(460, 10)
    /\ snapModes.grid /\ snapModes.osnap /\ snapModes.otrack
    /\ HasLastPoint
    /\ NoObjectInReach(lastOp.currentPos)
    /\ snapPos = IPt(465, 0)

\* d is the raw distance rounded to the nearest multiple of the length
\* increment, the raw distance itself without a length increment.
IsPolarDist(d, rawDist) ==
    IF activeLengthSnap # None
    THEN IsNearestMultiple(d, R(rawDist), activeLengthSnap[1])
    ELSE d = R(rawDist)

\* a is, up to full turns, the reference direction plus the relative angle
\* wrapped into (-180, 180] and rounded to the nearest multiple of the angle
\* increment, the raw angle itself without an angle increment.
IsPolarAngle(a, rawAngle) ==
    IF activeAngleSnap # None
    THEN \E rel \in -179..180 :
            /\ (rel - (rawAngle - BaseAngle)) % 360 = 0
            /\ \E k \in -180..180 :
                  /\ IsNearestMultiple(R(k * activeAngleSnap[1]), R(rel),
                                       activeAngleSnap[1])
                  /\ (a - (BaseAngle + k * activeAngleSnap[1])) % 360 = 0
    ELSE (a - rawAngle) % 360 = 0

\* result is the last point plus a polar offset (d', a') as described.
IsPolarSnap(result, pos) ==
    \/ /\ result.pos = IPt(LastPoint.x, LastPoint.y)
       /\ IsPolarDist(RZero, pos.dist)
    \/ /\ DOMAIN result.pos = {"about", "dist", "angle"}
       /\ result.pos.about = IPt(LastPoint.x, LastPoint.y)
       /\ IsPolarDist(result.pos.dist, pos.dist)
       /\ IsPolarAngle(result.pos.angle, pos.angle)

\* C15: in polar resolution (WALL tool, a last point, angle or length snap
\* active) the returned position is the last point plus the polar offset
\* (d', a'): a' is the reference direction (that of the previous segment, 0
\* without one) plus the relative angle, wrapped into (-180, 180] and
\* rounded to the nearest multiple of the angle increment, and d' is the raw
\* distance rounded to the nearest multiple of the length increment; with
\* reference direction 0, increment 15 and raw relative angle 10 the angle
\* is 15, and with length increment 100 and raw distance 240 the distance is
\* 200.
C15_PolarRounding ==
    PolarBranch =>
        \A pos \in PolarCursorPositions :
            /\ IsPolarSnap(getSnappedPos(pos), pos)
            /\ (BaseAngle = 0 /\ activeAngleSnap = Some(15) /\ pos.angle = 10
                    /\ pos.dist = 240) => getSnappedPos(pos).pos.angle = 15
            /\ (activeLengthSnap = Some(100) /\ pos.dist = 240) =>
                   getSnappedPos(pos).pos.dist = R(200)

\* With angle increment 15 and length increment 100 the pointer was moved
\* to distance 240 at 10 degrees from the first point of a chain.
C15_Witness ==
    /\ lastOp.op = "handleMouseMove"
    /\ PolarBranch
    /\ activeAngleSnap = Some(15) /\ activeLengthSnap = Some(100)
    /\ Len(ActivePoints) = 1
    /\ DOMAIN lastOp.currentPos = {"about", "dist", "angle"}
    /\ lastOp.currentPos.dist = 240 /\ lastOp.currentPos.angle = 10
    /\ snapPos = [about |-> IPt(LastPoint.x, LastPoint.y), dist |-> R(200),
                  angle |-> 15]

\* C16: the snapped position of a mouse move is a function of the cursor
\* position, the modes, the drawing and the zoom alone: the tracking guides
\* and the guide intersection it was resolved with are the ones constructed
\* from that same cursor position (the guides the move leaves in the state),
\* wherever the cursor was before.
C16_SnapFromOwnGuides ==
    lastOp.op = "handleMouseMove" => snapPos = MoveSnapPos(lastOp.currentPos)

(***************************************************************************)
(* The geometry functions applied to polygons with integer vertices: the   *)
(* polygons are drawn at the start, as lists of corners.                   *)
(***************************************************************************)
PolygonOf(corners) ==
    List([k \in 1..Len(corners) |-> IPt(corners[k][1], corners[k][2])])

\* The corners of a 500x500 tile at xy, in the order of the tile polygons.
TileCorners(xy) ==
    << <<xy[1], xy[2]>>, <<xy[1] + 500, xy[2]>>, <<xy[1] + 500, xy[2] + 500>>,
       <<xy[1], xy[2] + 500>> >>

Bowtie == << <<0, 0>>, <<1000, 1000>>, <<1000, 0>>, <<0, 1000>> >>

\* Areas as they are drawn, in either winding.
KernelClipRegions ==
    {Square, Reverse(Square), LShape, Reverse(LShape), Triangle, Reverse(Triangle)}

\* A tile inside the square, over its corner, along its right edge, at its
\* corner and away from it.
KernelTiles ==
    {TileCorners(<<0, 0>>), TileCorners(<<800, 800>>), TileCorners(<<1000, 0>>),
     TileCorners(<<1000, 1000>>), TileCorners(<<1500, 0>>)}

KernelSubjects == KernelClipRegions \cup KernelTiles \cup {Bowtie}

InitGeometry ==
    /\ InitDoc
    /\ InitCut
    /\ InitSnap
    /\ InitCanvas
    /\ InitKeys
    /\ activeTool = "WALL"
    /\ subject \in KernelSubjects
    /\ clipRegion \in KernelClipRegions
    /\ kernelResult = Null
    /\ lastOp = [op |-> "init"]

ApplyPolygonArea ==
    /\ kernelResult' = polygonArea(PolygonOf(subject))
    /\ lastOp' = [op |-> "polygonArea"]
    /\ UNCHANGED <<docVars, cutVars, activeTool, snapVars, dialogVars, canvasVars,
                   subject, clipRegion, previousToolRef>>

ApplyStats ==
    /\ kernelResult' = calculateStatsForArea(ClosedArea(1, subject), tiles,
                                             tileDimensions).calculationResult
    /\ lastOp' = [op |-> "calculateStatsForArea"]
    /\ UNCHANGED <<docVars, cutVars, activeTool, snapVars, dialogVars, canvasVars,
                   subject, clipRegion, previousToolRef>>

ApplyClip ==
    /\ kernelResult' = clipPolygonByPolygon(PolygonOf(subject), PolygonOf(clipRegion))
    /\ lastOp' = [op |-> "clipPolygonByPolygon"]
    /\ UNCHANGED <<docVars, cutVars, activeTool, snapVars, dialogVars, canvasVars,
                   subject, clipRegion, previousToolRef>>

NextGeometry ==
    \/ ApplyPolygonArea
    \/ ApplyStats
    \/ ApplyClip

SpecGeometry == InitGeometry /\ [][NextGeometry]_vars

(***************************************************************************)
(* Properties of the geometry functions.                                   *)
(***************************************************************************)
\* C17: polygonArea does not depend on the orientation: for every polygon P
\* with integer vertices and at least 3 points polygonArea(P) =
\* polygonArea(reverse(P)), and calculateStatsForArea gives an area drawn
\* clockwise and the same area drawn counter-clockwise the same polygonArea.
C17_AreaOfReverse ==
    /\ lastOp.op = "polygonArea" =>
           kernelResult = polygonArea(Reverse(PolygonOf(subject)))
    /\ lastOp.op = "calculateStatsForArea" =>
           kernelResult.polygonArea =
               calculateStatsForArea(ClosedArea(1, Reverse(subject)), tiles,
                                     tileDimensions).calculationResult.polygonArea

\* The area of a polygon that is wound clockwise was computed, and it is
\* positive.
C17_Witness ==
    /\ lastOp.op = "polygonArea"
    /\ isPolygonClockwise(PolygonOf(subject))
    /\ Len(subject) >= 3
    /\ RLt(RZero, kernelResult)

\* C18: for every simple polygon P, as stored and without a winding
\* normalisation before, polygonArea(clipPolygonByPolygon(P, P)) equals
\* polygonArea(P) (the drawn areas are simple polygons).
C18_ClipBySelf ==
    (lastOp.op = "clipPolygonByPolygon" /\ subject = clipRegion) =>
        polygonArea(kernelResult) = polygonArea(PolygonOf(subject))


\* The rectangle of a tile polygon and its centre.
TileRect(corners) ==
    [x |-> corners[1][1], y |-> corners[1][2],
     width |-> corners[2][1] - corners[1][1],
     height |-> corners[3][2] - corners[2][2]]

RectCentre(rect) ==
    Pt(RAdd(R(rect.x), <<rect.width, 2>>), RAdd(R(rect.y), <<rect.height, 2>>))

\* The tile and the region have an overlap of positive area: an edge of the
\* region passes through the open interior of the tile, or no edge does and
\* the centre of the tile lies in the region.
PositiveOverlap(corners, region) ==
    LET rect == TileRect(corners)
        poly == PolygonOf(region)
        n == Len(poly)
    IN  \/ \E i \in 1..n : CrossesInterior(poly[i], poly[NextIdx(i, n)], rect)
        \/ pointInPolygon(RectCentre(rect), poly)

\* The tile and the region share a point: they overlap or their borders meet.
SharePoint(corners, region) ==
    LET tile == PolygonOf(corners)
        poly == PolygonOf(region)
        n == Len(poly)
    IN  \/ PositiveOverlap(corners, region)
        \/ \E i \in 1..n : \E j \in 1..4 :
              segmentsIntersect(poly[i], poly[NextIdx(i, n)],
                                tile[j], tile[NextIdx(j, 4)])

\* A tile has been clipped by a region wound the way the callers normalise.
TileClipped ==
    /\ lastOp.op = "clipPolygonByPolygon"
    /\ subject \in KernelTiles
    /\ ~isPolygonClockwise(PolygonOf(clipRegion))

\* Every point of the result lies on the tile and on the region.
OnCommonBorder ==
    \A k \in 1..Len(kernelResult) :
        /\ pointInPolygon(kernelResult[k], PolygonOf(subject))
        /\ pointInPolygon(kernelResult[k], PolygonOf(clipRegion))

\* C19 as stated: clipPolygonByPolygon returns the empty list whenever the
\* tile and the counter-clockwise region have no overlap of positive area,
\* a tile that only touches the region along an edge or at a corner included.
C19_EmptyWithoutOverlap ==
    (TileClipped /\ ~PositiveOverlap(subject, clipRegion)) => kernelResult = <<>>

\* C19: clipPolygonByPolygon returns the empty list when the tile and the
\* region share no point; when the tile only touches the region along an edge
\* or at a corner the result is a list of area 0, and for a convex region it
\* is a non-empty list of points on the common border.
C19_NoAreaWithoutOverlap ==
    (TileClipped /\ ~PositiveOverlap(subject, clipRegion)) =>
        /\ polygonArea(kernelResult) = RZero
        /\ OnCommonBorder
        /\ ~SharePoint(subject, clipRegion) => kernelResult = <<>>
        /\ (SharePoint(subject, clipRegion) /\ clipRegion \in {Square, Triangle}) =>
               kernelResult # <<>>

C19_Witness ==
    /\ TileClipped
    /\ ~PositiveOverlap(subject, clipRegion)
    /\ SharePoint(subject, clipRegion)
    /\ kernelResult # <<>>


(***************************************************************************)
(* Drawing only: points are added, the polygon is closed, points and walls *)
(* are erased.                                                             *)
(***************************************************************************)
NextDraw ==
    \/ \E point \in NextClicks : handleAddPoint(point)
    \/ closeActivePolygon
    \/ \E item \in PointItems \cup WallItems : handleEraseBatch(<<item>>)

SpecDraw == InitEdit /\ [][NextDraw]_vars

\* The ends of the walls of an area, in the order of its wall list.
WallPairs(area) ==
    [k \in 1..Len(area.walls) |-> <<area.walls[k].p1Id, area.walls[k].p2Id>>]

\* The consecutive pairs of the point list, and the pair (last, first) when
\* the area is closed.
ConsecutivePairs(area) ==
    LET n == Len(area.points)
    IN  [k \in 1..(n - 1) |-> <<area.points[k].id, area.points[k + 1].id>>]
        \o (IF area.isClosed /\ n > 0
            THEN << <<area.points[n].id, area.points[1].id>> >> ELSE <<>>)

\* C20: after any sequence of add-point, close-polygon and erase (point or
\* wall) operations the wall list of every area is exactly the consecutive
\* pairs (points[i], points[i+1]) of its point list in order, plus the
\* closing wall (last point, first point) if and only if the area is closed.
C20_WallsFollowPoints ==
    \A a \in 1..Len(areas) : WallPairs(areas[a]) = ConsecutivePairs(areas[a])


(***************************************************************************)
(* The waste prompt.                                                       *)
(***************************************************************************)
\* The tile rectangle and the polygon have an overlap of positive area.
OverlapsPolygon(rect, poly) ==
    \/ \E i \in 1..Len(poly) :
           CrossesInterior(poly[i], poly[NextIdx(i, Len(poly))], rect)
    \/ pointInPolygon(RectCentre(rect), poly)

\* The tile lies completely outside every closed visible area.
OutsideEveryArea(tile, as) ==
    \A a \in 1..Len(as) :
        (as[a].isClosed /\ as[a].isVisible) =>
            ~OverlapsPolygon(tile, ToPoly(as[a].points))

\* The pieces the prompt offers for deletion.
OfferedPieces ==
    SelectIdx(wasteDeletionPrompt.allPieces,
              Indices([k \in 1..Len(wasteDeletionPrompt.allPieces) |->
                  wasteDeletionPrompt.allPieces[k].id
                      \in SeqToSet(wasteDeletionPrompt.piecesToDeleteIds)]))

\* Every cut piece references a tile of the tile set.
PiecesHaveTiles ==
    \A k \in 1..Len(cutPieces) :
        \E t \in 1..Len(tiles) : tiles[t].id = cutPieces[k].originalTile.id

\* C21: every piece the waste prompt offers for deletion (an offcut with
\* wastePercentage >= 99.9) belongs to a tile that lies completely outside
\* every closed visible area, and after the deletion is confirmed every cut
\* piece that remains references a tile that is still in the tile set.
C21_WasteIsOutside ==
    /\ wasteDeletionPrompt # Null =>
           \A k \in 1..Len(OfferedPieces) :
               OutsideEveryArea(OfferedPieces[k].originalTile, areas)
    /\ lastOp.op = "handleConfirmDeleteWaste" => PiecesHaveTiles


(***************************************************************************)
(* The cut segments of an offcut.                                          *)
(***************************************************************************)
\* The point lies on the given side of the tile rectangle (1 top, 2 right,
\* 3 bottom, 4 left).
OnSide(p, tile, side) ==
    LET x0 == R(tile.x)
        x1 == R(tile.x + tile.width)
        y0 == R(tile.y)
        y1 == R(tile.y + tile.height)
        inX == RLe(x0, p.x) /\ RLe(p.x, x1)
        inY == RLe(y0, p.y) /\ RLe(p.y, y1)
    IN  CASE side = 1 -> p.y = y0 /\ inX
          [] side = 2 -> p.x = x1 /\ inY
          [] side = 3 -> p.y = y1 /\ inX
          [] side = 4 -> p.x = x0 /\ inY

\* One side of the tile contains both ends.
OnOneSide(p, q, tile) == \E side \in 1..4 : OnSide(p, tile, side) /\ OnSide(q, tile, side)

\* The edges of a polygon no side of the tile contains, in tile coordinates.
RECURSIVE EdgesOffSides(_, _, _)
EdgesOffSides(poly, tile, i) ==
    IF i > Len(poly) THEN <<>>
    ELSE (IF OnOneSide(poly[i], poly[NextIdx(i, Len(poly))], tile) THEN <<>>
          ELSE << MovedToTile(<<poly[i], poly[NextIdx(i, Len(poly))]>>, tile) >>)
         \o EdgesOffSides(poly, tile, i + 1)

ExpectedCutSegments(tile) ==
    Flatten([k \in 1..Len(CandidatesOf(tile)) |->
                EdgesOffSides(CandidatesOf(tile)[k], tile, 1)])

\* C22: the cut segments recorded on an offcut are exactly the edges of the
\* in-piece polygons of its tile for which no single side (top, right,
\* bottom, left) of the tile rectangle contains both ends, in piece-local
\* coordinates; an edge along the tile's own perimeter is never recorded.
\* Square (0,0)-(1000,1000) and tile (800,800) 500x500: the two edges on
\* x = 1000 and y = 1000.
C22_CutSegments ==
    /\ JustCut =>
           \A k \in 1..Len(PiecesNow) :
               PiecesNow[k].isOffcut =>
                   PiecesNow[k].cutSegments =
                       ExpectedCutSegments(PiecesNow[k].originalTile)
    /\ CutScenario(<<800, 800>>) =>
           SeqToSet(PiecesNow[2].cutSegments) =
               { <<IPt(200, 0), IPt(200, 200)>>, <<IPt(200, 200), IPt(0, 200)>> }

\* The plan is cut with a tile over the corner of the square: its offcut
\* has two cut segments.
C22_Witness ==
    /\ CutScenario(<<800, 800>>)
    /\ PiecesNow[2].isOffcut
    /\ Len(PiecesNow[2].cutSegments) = 2


(***************************************************************************)
(* The layout of the offcuts.                                              *)
(***************************************************************************)
\* The offcuts among the pieces of the cut (indices into PiecesNow).
OffcutsNow == {k \in 1..Len(PiecesNow) : PiecesNow[k].isOffcut}

PaletteIndex(k) ==
    CHOOSE i \in 1..Len(TILE_COLORS) : TILE_COLORS[i] = PiecesNow[k].originalTile.color
TileOrdinal(k) == PiecesNow[k].originalTile.number[2]

\* The offcuts of the colour of k whose tile has a smaller ordinal.
LeftOf(k) ==
    {j \in OffcutsNow : /\ PaletteIndex(j) = PaletteIndex(k)
                        /\ TileOrdinal(j) < TileOrdinal(k)}

\* The least x among the points of the areas and the corners of the tiles.
LeastX ==
    IMin(UNION {{preCutState.areas[a].points[q].x :
                    q \in 1..Len(preCutState.areas[a].points)} :
                a \in 1..Len(preCutState.areas)}
         \cup {preCutState.tiles[t].x : t \in 1..Len(preCutState.tiles)})

RECURSIVE WidthsAndGaps(_)
\* The widths of the tiles of the offcuts in S, each with a gap of half the
\* nominal tile width.
WidthsAndGaps(S) ==
    IF S = {} THEN RZero
    ELSE LET j == CHOOSE j \in S : TRUE
         IN  RAdd(RAdd(R(PiecesNow[j].originalTile.width), <<tileDimensions.width, 2>>),
                  WidthsAndGaps(S \ {j}))

\* The rectangles of two packed offcuts have no overlap.
PackedApart(j, k) ==
    \/ RLe(RAdd(PiecesNow[j].x, R(PiecesNow[j].originalTile.width)), PiecesNow[k].x)
    \/ RLe(RAdd(PiecesNow[k].x, R(PiecesNow[k].originalTile.width)), PiecesNow[j].x)
    \/ RLe(RAdd(PiecesNow[j].y, R(PiecesNow[j].originalTile.height)), PiecesNow[k].y)
    \/ RLe(RAdd(PiecesNow[k].y, R(PiecesNow[k].originalTile.height)), PiecesNow[j].y)

\* C23: the offcuts are packed one row per tile colour, the rows in
\* ascending TILE_COLORS index from top to bottom, within a row in ascending
\* tile ordinal from left to right, from the least x of all areas and tiles
\* on with a gap of tileWidth / 2 between the pieces; no two packed offcut
\* rectangles overlap.
C23_OffcutPacking ==
    JustCut =>
        \A j \in OffcutsNow :
            /\ PiecesNow[j].x = RAdd(R(LeastX), WidthsAndGaps(LeftOf(j)))
            /\ \A k \in OffcutsNow \ {j} :
                   /\ PaletteIndex(j) = PaletteIndex(k) => PiecesNow[j].y = PiecesNow[k].y
                   /\ PaletteIndex(j) < PaletteIndex(k) =>
                          RLt(PiecesNow[j].y, PiecesNow[k].y)
                   /\ PackedApart(j, k)

\* A cut with two offcuts of one colour, side by side in their row.
C23_Witness ==
    /\ JustCut
    /\ \E j \in OffcutsNow : \E k \in OffcutsNow :
           /\ PaletteIndex(j) = PaletteIndex(k)
           /\ TileOrdinal(j) < TileOrdinal(k)
           /\ RLt(PiecesNow[j].x, PiecesNow[k].x)


(***************************************************************************)
(* The tracking guides.                                                    *)
(***************************************************************************)
\* The pointer has moved while guides are built.
GuidesBuilt ==
    /\ lastOp.op = "handleMouseMove"
    /\ snapModes.otrack /\ activeTool = "WALL" /\ HasLastPoint

\* The closest horizontal, vertical and extension candidate within the
\* tolerance: <<distance, guide or Null>>.
ClosestGuide(kind) ==
    CASE kind = "horizontal" ->
             BestAxisLine(AllPoints(visibleAreas), "y", 1, lastOp.currentPos,
                          <<trackingTolerance, Null>>)
      [] kind = "vertical" ->
             BestAxisLine(AllPoints(visibleAreas), "x", 1, lastOp.currentPos,
                          <<trackingTolerance, Null>>)
      [] kind = "extension" ->
             BestExtLine(AllWallSegments(visibleAreas), 1, lastOp.currentPos,
                         <<trackingTolerance, Null>>)

KeptGuides == SeqToSet(trackingGuides.lines)

\* Two guides are parallel: the directions have cross product 0.
ParallelGuides(a, b) ==
    RSub(RMul(RSub(a.p2.x, a.p1.x), RSub(b.p2.y, b.p1.y)),
         RMul(RSub(a.p2.y, a.p1.y), RSub(b.p2.x, b.p1.x))) = RZero

\* C24: at most two guides are kept out of the candidates (closest
\* horizontal, closest vertical, closest wall extension, each within
\* TRACKING_TOLERANCE / zoom); the extension guide is dropped in favour of
\* a horizontal or vertical one only when it is no closer than that one;
\* the intersection is non-null only when two guides are kept and they are
\* not parallel.
C24_TwoBestGuides ==
    GuidesBuilt =>
        /\ Len(trackingGuides.lines) <= 2
        /\ KeptGuides \subseteq
               {ClosestGuide(kind)[2] : kind \in {"horizontal", "vertical", "extension"}}
                   \ {Null}
        /\ (ClosestGuide("extension")[2] # Null
               /\ ClosestGuide("extension")[2] \notin KeptGuides) =>
               \A kind \in {"horizontal", "vertical"} :
                   /\ ClosestGuide(kind)[2] \in KeptGuides
                   /\ RLe(ClosestGuide(kind)[1], ClosestGuide("extension")[1])
        /\ trackingGuides.intersection # Null =>
               /\ Len(trackingGuides.lines) = 2
               /\ ~ParallelGuides(trackingGuides.lines[1], trackingGuides.lines[2])


(***************************************************************************)
(* The tools: the toolbar, the keyboard and the space bar, with the cut.   *)
(***************************************************************************)
CutViewTools == {"PAN", "MOVE", "ERASE", "POINTER"}

\* activeTool after handleToolChange(tool)
ToolAfterChange(tool) ==
    IF isCutViewActive /\ tool \notin CutViewTools THEN activeTool
    ELSE IF activeTool = tool THEN "POINTER" ELSE tool

\* onToolChange of the toolbar (handleEraseClick for ERASE, no area being
\* selected).
handleToolChange(tool) ==
    /\ activeTool' = ToolAfterChange(tool)
    /\ lastOp' = [op |-> "handleToolChange", tool |-> tool]
    /\ UNCHANGED <<docVars, cutVars, snapVars, dialogVars, canvasVars, kernelVars,
                   previousToolRef>>

\* The keys that pick a tool: the space bar sets the tool aside for PAN.
handleKeyDown(key) ==
    /\ IF key = " "
       THEN IF activeTool # "PAN"
            THEN previousToolRef' = Some(activeTool) /\ activeTool' = "PAN"
            ELSE UNCHANGED <<previousToolRef, activeTool>>
       ELSE /\ activeTool' =
                   CASE key = "d" -> IF isCutViewActive THEN activeTool
                                     ELSE ToolAfterChange("WALL")
                     [] key = "m" -> ToolAfterChange("MOVE")
                     [] key = "e" -> ToolAfterChange("POINTER")
                     [] key = "x" -> ToolAfterChange("ERASE")
            /\ UNCHANGED previousToolRef
    /\ lastOp' = [op |-> "handleKeyDown", key |-> key]
    /\ UNCHANGED <<docVars, cutVars, snapVars, dialogVars, canvasVars, kernelVars>>

\* The space bar is let go: the tool set aside is active again.
handleKeyUp ==
    /\ IF previousToolRef # None
       THEN activeTool' = previousToolRef[1] /\ previousToolRef' = None
       ELSE UNCHANGED <<previousToolRef, activeTool>>
    /\ lastOp' = [op |-> "handleKeyUp", key |-> " "]
    /\ UNCHANGED <<docVars, cutVars, snapVars, dialogVars, canvasVars, kernelVars>>

\* A plan with the closed square, tiled: one tile inside the square, or one
\* inside and one away from it.
ToolTileLists ==
    {renumberTilesByColor(<<MkTile(1, <<0, 0>>, SessionTileSize, TILE_COLORS[1])>>),
     renumberTilesByColor(<<MkTile(1, <<0, 0>>, SessionTileSize, TILE_COLORS[1]),
                            MkTile(2, <<2000, 2000>>, SessionTileSize, TILE_COLORS[1])>>)}

ToolbarTools == {"WALL", "MOVE", "POINTER", "ERASE", "TILE", "FILL", "PAN"}
ToolKeys == {" ", "d", "m", "e", "x"}

InitTools ==
    /\ tiles \in ToolTileLists
    /\ tileDimensions = [width |-> 500, height |-> 500]
    /\ areas = <<calculateStatsForArea(ClosedArea(1, Square), tiles, tileDimensions)>>
    /\ activeAreaIndex = None
    /\ history = <<[areas |-> areas, tiles |-> tiles]>>
    /\ historyIndex = 0
    /\ moveSnapshot = Null
    /\ isMoveColliding = FALSE
    /\ wallEditInfo = Null
    /\ wallEditPreview = Null
    /\ now = 1000
    /\ InitCut
    /\ InitSnap
    /\ InitCanvas
    /\ InitKeys
    /\ InitKernel
    /\ activeTool = "POINTER"
    /\ lastOp = [op |-> "init"]

NextTools ==
    \/ \E tool \in ToolbarTools : handleToolChange(tool)
    \/ \E key \in ToolKeys : handleKeyDown(key)
    \/ handleKeyUp
    \/ OpenSnapSettingsKey
    \/ CloseSnapSettings
    \/ handleCut
    \/ handleConfirmDeleteWaste
    \/ handleKeepWaste
    \/ handleRestore

SpecTools == InitTools /\ [][NextTools]_vars

\* C25: while the cut view is active the active tool is one of PAN, MOVE,
\* ERASE, POINTER, under every interleaving of toolbar clicks, the cut,
\* keyboard shortcuts and the space bar pressed and let go.
C25_CutViewTools == isCutViewActive => activeTool \in CutViewTools


\* C29: the snap indicator published on a mouse move carries the type the
\* resolver call that produced its position returned: a position from a
\* guide intersection, a guide projection or the polar snap is never
\* labelled 'grid', 'vertex' or 'none'.
C29_IndicatorType ==
    (lastOp.op = "handleMouseMove" /\ snapIndicator # Null) =>
        /\ snapIndicator.pos = snapPos
        /\ snapIndicator.type = lastOp.resolved


(***************************************************************************)
(* The active area after the operations on walls and areas.                *)
(***************************************************************************)
AreaOperations ==
    {"handleAddPoint", "closeActivePolygon", "handleEraseBatch",
     "handleUndo", "handleRedo"}

\* The index is that of an area of the list, and the area is open.
ActiveIndexIsOpenArea ==
    activeAreaIndex # None =>
        /\ activeAreaIndex[1] \in 0..(Len(areas) - 1)
        /\ ~areas[activeAreaIndex[1] + 1].isClosed

\* C26: after an added point, a closed polygon, an erase batch, an undo or a
\* redo, activeAreaIndex is null or the index of an area of the list that is
\* not closed.
C26_ActiveAreaIsOpen ==
    lastOp.op \in AreaOperations => ActiveIndexIsOpenArea



(***************************************************************************)
(* A tiling session: the square area is closed, the user paints tiles with *)
(* the TILE tool, drags them, erases them and fills the area, with the     *)
(* grid snap on or off.                                                    *)
(***************************************************************************)
\* Canvas.addTileToPaintBatch: the batch of the drag with one more tile,
\* unless the tile meets one of the batch.
addTileToPaintBatch(paintingBatch, pos, activeColor) ==
    LET finalPos ==
            IF snapModes.grid
            THEN <<FloorDiv(pos[1], tileDimensions.width) * tileDimensions.width,
                   FloorDiv(pos[2], tileDimensions.height) * tileDimensions.height>>
            ELSE <<pos[1], pos[2] - tileDimensions.height>>
        newTileRect == [x |-> finalPos[1], y |-> finalPos[2],
                        width |-> tileDimensions.width,
                        height |-> tileDimensions.height, color |-> activeColor]
    IN  IF \E k \in 1..Len(paintingBatch) :
               rectanglesIntersect(newTileRect, paintingBatch[k])
        THEN paintingBatch
        ELSE Append(paintingBatch, newTileRect)

\* The batch of a drag over the positions of a path.
RECURSIVE PaintingBatch(_, _, _)
PaintingBatch(path, n, activeColor) ==
    IF n = 0 THEN <<>>
    ELSE addTileToPaintBatch(PaintingBatch(path, n - 1, activeColor), path[n],
                             activeColor)

\* The drags of the TILE tool: one click, and a drag over two positions.
PaintPaths ==
    {<<<<0, 500>>>>, <<<<250, 500>>>>, <<<<500, 500>>>>,
     <<<<0, 1000>>, <<300, 1000>>>>}
\* Where the mouse is let go when a tile is dragged, the press being at <<0, 0>>.
TileDrags == {<<500, 0>>, <<250, 0>>}

InitTiling ==
    /\ tiles = <<>>
    /\ tileDimensions = [width |-> 500, height |-> 500]
    /\ activeAreaIndex = None
    /\ areas \in SavedPlans
    /\ activeTool = "TILE"
    /\ history = <<[areas |-> areas, tiles |-> tiles]>>
    /\ historyIndex = 0
    /\ moveSnapshot = Null
    /\ isMoveColliding = FALSE
    /\ wallEditInfo = Null
    /\ wallEditPreview = Null
    /\ now = 1000
    /\ InitCut
    /\ InitSnap
    /\ InitCanvas
    /\ InitKeys
    /\ InitKernel
    /\ lastOp = [op |-> "init"]

NextTiling ==
    \/ handleToggleSnapMode("grid")
    \/ \E path \in PaintPaths :
           handleAddTilesBatch(PaintingBatch(path, Len(path), TILE_COLORS[1]))
    \/ \E item \in TileItems : handleEraseBatch(<<item>>)
    \/ \E selection \in TileItems : handleSelectForMove(selection, <<0, 0>>)
    \/ \E pos \in TileDrags : handleMoveSelection(pos, Null)
    \/ handleMoveSelectionEnd
    \/ \E item \in AreaItems : handleFillArea(item.id, TILE_COLORS[1])

SpecTiling == InitTiling /\ [][NextTiling]_vars

(***************************************************************************)
(* The tiles after the operations on tiles.                                *)
(***************************************************************************)
CompletedTileOperations ==
    {"handleAddTilesBatch", "handleFillArea", "handleMoveSelectionEnd",
     "handleEraseBatch"}

NoTwoTilesOverlap ==
    \A j, k \in 1..Len(tiles) : j # k => ~rectanglesIntersect(tiles[j], tiles[k])

\* C27: after a completed tile operation (a painted batch, a filled area, the
\* end of a move with or without a collision, an erase) rectanglesIntersect is
\* false for every pair of distinct tiles, also when the grid snap was off
\* while painting or moving and an area is filled afterwards.
C27_TilesDoNotOverlap ==
    lastOp.op \in CompletedTileOperations => NoTwoTilesOverlap


(***************************************************************************)
(* The cut view: the plan is cut, the pieces are dragged and erased, the   *)
(* areas of the summary are shown and hidden, and the plan is restored.    *)
(***************************************************************************)
\* handleToggleAreaVisibility: the eye of the area summary, which the cut
\* view leaves enabled.
handleToggleAreaVisibility(areaId) ==
    /\ moveSnapshot = Null /\ wallEditInfo = Null /\ ClockRuns
    /\ \E newAreas \in {[k \in 1..Len(areas) |->
                           IF areas[k].id = areaId
                           THEN [areas[k] EXCEPT !.isVisible = ~areas[k].isVisible]
                           ELSE areas[k]]} :
           /\ areas' = newAreas
           /\ recordHistory(newAreas, tiles)
    /\ lastOp' = [op |-> "handleToggleAreaVisibility"]
    /\ Tick
    /\ UNCHANGED <<tiles, tileDimensions, activeAreaIndex, moveSnapshot,
                   isMoveColliding, wallEditInfo, wallEditPreview, cutVars,
                   activeTool, snapVars, dialogVars, canvasVars, kernelVars,
                   previousToolRef>>

\* What findHoveredCutPiece can give: the pieces of the cut view (cutPieces
\* is a list exactly while the cut view is shown).
CutPieceItems ==
    IF isCutViewActive
    THEN {[type |-> "cutPiece", id |-> cutPieces[k].id, areaId |-> 0] :
             k \in 1..Len(cutPieces)}
    ELSE {}

NextCutView ==
    \/ \E tool \in CutViewTools : handleToolChange(tool)
    \/ handleCut
    \/ handleConfirmDeleteWaste
    \/ handleKeepWaste
    \* the button is clicked with the mouse: no drag is under way
    \/ moveSnapshot = Null /\ handleRestore
    \/ /\ activeTool = "ERASE"
       /\ \E item \in CutPieceItems : handleEraseBatch(<<item>>)
    \/ /\ activeTool = "MOVE"
       /\ \E selection \in CutPieceItems : handleSelectForMove(selection, <<0, 0>>)
    \/ \E pos \in MouseMoves : handleMoveSelection(pos, Null)
    \/ handleMoveSelectionEnd
    \* the prompt for the waste is modal for the mouse, not for the keys
    \/ /\ wasteDeletionPrompt = Null
       /\ \E item \in AreaItems : handleToggleAreaVisibility(item.id)
    \/ handleUndo
    \/ handleRedo

SpecCutView == InitTools /\ [][NextCutView]_vars

\* C28: while the cut view is shown no operation alters the areas or the
\* tiles or records history (erase and move change cut pieces only), and
\* Restore puts back the areas and tiles the cut started from, less the tiles
\* of a confirmed waste deletion, and leaves the cut view.
C28_CutViewKeepsPlan ==
    [][/\ (isCutViewActive /\ isCutViewActive') =>
              UNCHANGED <<areas, tiles, history, historyIndex>>
       /\ (isCutViewActive /\ ~isCutViewActive') =>
              /\ preCutState # Null
              /\ areas' = preCutState.areas
              /\ tiles' = preCutState.tiles
              /\ UNCHANGED <<history, historyIndex>>]_vars


(***************************************************************************)
(* The history of the plan.                                                *)
(***************************************************************************)
HistoryOperations ==
    CompletedEdits \cup {"handleAddPoint", "handleUndo", "handleRedo"}

\* history[historyIndex] of the code
CurrentSnapshot == history[historyIndex + 1]

DocumentIsCurrentSnapshot ==
    /\ historyIndex \in 0..(Len(history) - 1)
    /\ areas = CurrentSnapshot.areas
    /\ tiles = CurrentSnapshot.tiles

\* An undo leaves the plan it started from as the snapshot a redo loads, and
\* a redo loads that snapshot.
UndoThenRedo ==
    /\ lastOp'.op = "handleUndo" =>
           /\ history' = history
           /\ history'[historyIndex' + 2] = [areas |-> areas, tiles |-> tiles]
    /\ lastOp'.op = "handleRedo" =>
           /\ history' = history
           /\ areas' = history[historyIndex + 2].areas
           /\ tiles' = history[historyIndex + 2].tiles

\* A recorded edit keeps the snapshots up to historyIndex, drops the later
\* ones and adds one snapshot, which is the current one.
RecordingTruncates ==
    history' # history =>
        /\ Len(history') = historyIndex + 2
        /\ historyIndex' = historyIndex + 1
        /\ SubSeq(history', 1, historyIndex + 1) = SubSeq(history, 1, historyIndex + 1)

\* C30: outside the cut view, after every completed edit, undo or redo,
\* 0 <= historyIndex < history.length and areas and tiles are those of
\* history[historyIndex]; an undo followed at once by a redo gives the same
\* areas and tiles back; an edit recorded after an undo drops every snapshot
\* after historyIndex.
C30_HistoryFollowsPlan ==
    /\ [](lastOp.op \in HistoryOperations /\ ~isCutViewActive
             => DocumentIsCurrentSnapshot)
    /\ [][UndoThenRedo /\ RecordingTruncates]_vars

=============================================================================
